---- MODULE Spec2Model ----
(***************************************************************************)
(* s3-proxy: a read-only caching reverse proxy in front of an S3 origin.   *)
(* The model covers the LRU cache (internal/cache/cache.go), the object    *)
(* handler, the background revalidation and the purge handler              *)
(* (internal/server, handlers part of middleware.go) and the origin        *)
(* adapter's outcome mapping (internal/origin/s3.go).                      *)
(*                                                                         *)
(* Strings are sequences of one-character strings.  Instants are ticks of  *)
(* a global clock; durations are ticks too and keep the two's complement   *)
(* wrap of Go's int64 time.Duration at a scaled width (DurationBits).      *)
(* Cache entries are heap objects: the cache, the handlers and the         *)
(* revalidation tasks hold pointers to them, as the Go code does.          *)
(***************************************************************************)
EXTENDS Integers, Sequences, FiniteSets, TLC

\* ---------------------------------------------------------------- bounds
NumKeys == 3          \* object keys known to the cache-only specification
NumReqKeys == 1       \* object keys clients request in the server specification
NumHandlers == 1      \* concurrent request-handler goroutines
MaxReval == 1         \* concurrent background revalidation goroutines
MaxTime == 3          \* last tick of the clock
MaxVer == 2           \* versions an origin object goes through
MaxPurgeKeys == 1     \* keys in one purge payload

\* ----------------------------------------------- configuration (config.Load)
Capacity == 2         \* CACHE_CAPACITY
CacheTTL == 2         \* CACHE_TTL, in ticks
CacheStaleTTL == 1    \* CACHE_STALE_TTL, in ticks
MaxObjectSize == 1    \* MAX_OBJECT_SIZE, in bytes

\* ------------------------------------------------------------- durations
Second == 2           \* time.Second, in ticks
DurationBits == 4     \* width of time.Duration (and of int) in the model

DurMod == 2 ^ DurationBits
DurHalf == 2 ^ (DurationBits - 1)
MinInt == 0 - DurHalf
MaxInt == DurHalf - 1

\* Two's complement wrap of an integer result to the width of time.Duration.
Wrap(x) == ((x + DurHalf) % DurMod) - DurHalf

Min(a, b) == IF a < b THEN a ELSE b

\* --------------------------------------------------------------- strings
KeyNames == <<"a", "b", "c", "d", "e">>
Keys == { <<KeyNames[i]>> : i \in 1..NumKeys }
ReqKeys == { <<KeyNames[i]>> : i \in 1..NumReqKeys }

\* strings.HasPrefix / strings.TrimPrefix
HasPrefix(s, p) == Len(s) >= Len(p) /\ SubSeq(s, 1, Len(p)) = p
TrimPrefix(s, p) == IF HasPrefix(s, p) THEN SubSeq(s, Len(p) + 1, Len(s)) ELSE s

\* strings.Contains
Contains(s, sub) ==
  \E i \in 1..(Len(s) - Len(sub) + 1) : SubSeq(s, i, i + Len(sub) - 1) = sub

\* strings.TrimSpace: drop the leading and the trailing blanks.
RECURSIVE TrimLeft(_)
TrimLeft(s) == IF s # <<>> /\ Head(s) = " " THEN TrimLeft(Tail(s)) ELSE s
RECURSIVE TrimRight(_)
TrimRight(s) ==
  IF s # <<>> /\ s[Len(s)] = " " THEN TrimRight(SubSeq(s, 1, Len(s) - 1)) ELSE s
TrimSpace(s) == TrimRight(TrimLeft(s))

\* func cacheKey(key string) string
cacheKey(key) == key

\* --------------------------------------------------------------- headers
\* An http.Header is a function from the header names present to their
\* values.  A Cache-Control value is the sequence of its comma-separated
\* directives, lower-cased and trimmed as the code does before matching;
\* a directive is a record [name |-> ..] and max-age carries its argument
\* [name |-> "max-age", arg |-> n, num |-> b]: b tells whether the text after
\* "max-age=" is a decimal integer, n is its value.
NoHeader == <<>>
HGet(h, name) == IF name \in DOMAIN h THEN h[name] ELSE NoHeader
HSet(h, name, v) == [n \in (DOMAIN h) \cup {name} |-> IF n = name THEN v ELSE h[n]]

Directive(name) == [name |-> name, arg |-> 0, num |-> FALSE]
MaxAgeDir(n) == [name |-> "max-age", arg |-> n, num |-> TRUE]
MaxAgeBad == [name |-> "max-age", arg |-> 0, num |-> FALSE]

\* strconv.Atoi on the argument of max-age: an error unless it is a decimal
\* integer within the range of int.
AtoiOk(part) == part.num /\ part.arg \in MinInt..MaxInt

\* func hasNoStore(h http.Header) bool
hasNoStore(h) ==
  LET cc == HGet(h, "Cache-Control")
  IN  \E i \in 1..Len(cc) : cc[i].name = "no-store"

\* func ttlFromHeaders(h http.Header, fallback time.Duration) time.Duration
\* The first max-age directive whose argument parses decides.
RECURSIVE ttlScan(_, _)
ttlScan(cc, fallback) ==
  IF cc = <<>> THEN fallback
  ELSE LET part == Head(cc)
       IN  IF part.name = "max-age" /\ AtoiOk(part)
           THEN IF part.arg <= 0 THEN 0 ELSE Wrap(part.arg * Second)
           ELSE ttlScan(Tail(cc), fallback)

ttlFromHeaders(h, fallback) == ttlScan(HGet(h, "Cache-Control"), fallback)

\* func cloneHeader(h http.Header) http.Header: a deep copy, value by value.
cloneHeader(h) == [n \in DOMAIN h |-> h[n]]

\* func copyHeaders(dst, src http.Header): src's values replace dst's.
copyHeaders(dst, src) ==
  [n \in (DOMAIN dst) \cup (DOMAIN src) |-> IF n \in DOMAIN src THEN src[n] ELSE dst[n]]

\* --------------------------------------------------------------- entries
\* type Entry struct (cache.go).  NoTime is the zero time.Time.
NoTime == 0

\* func (e *Entry) Fresh(now time.Time) bool
Fresh(e, now) == now < e.StoredAt + e.TTL

\* A stale window that never closes.
StaleButValidAlways(e, now) == TRUE

\* func (e *Entry) StaleButValid(now time.Time) bool
StaleButValid(e, now) == now < e.StoredAt + Wrap(e.TTL + e.StaleTTL)

\* An age counted in ticks of the clock instead of whole seconds.
AgeInTicks(e, now) == IF now < e.StoredAt THEN 0 ELSE now - e.StoredAt

\* func (e *Entry) Age(now time.Time) int
Age(e, now) == IF now < e.StoredAt THEN 0 ELSE (now - e.StoredAt) \div Second

\* ------------------------------------------------------------------ state
VARIABLES
  clock,     \* time.Now(), in ticks
  lru,       \* Cache.lru: <<[key, ptr]>>, most recently used first
  heap,      \* the *Entry objects: pointer -> Entry, Nil when unallocated
  origin,    \* the bucket: key -> current version of the object
  hs,        \* the objectHandler goroutines
  rv,        \* the revalidate goroutines
  pg,        \* the purgeHandler request
  purged,    \* keys purged with 204 and not requested since
  recency,   \* keys Set since the last Delete, most recently Set or hit first
  last,      \* the last cache operation of the cache-only specification
  pin,       \* input of the pure function under check
  pout       \* its result

vars == <<clock, lru, heap, origin, hs, rv, pg, purged, recency, last, pin, pout>>

Nil == [nil |-> TRUE]
NilPtr == 0
MaxPtr == Capacity + NumHandlers + MaxReval + 1
Ptrs == 1..MaxPtr
Handlers == 1..NumHandlers
Revals == 1..MaxReval
None == "none"
NoRec == [none |-> TRUE]

\* ---------------------------------------------------------------- the LRU
\* github.com/hashicorp/golang-lru/v2, as cache.go uses it: Get promotes,
\* Add updates and promotes or inserts and evicts the oldest, Remove drops.
LruKeys(l) == [i \in 1..Len(l) |-> l[i].key]
LruIndex(l, k) == IF \E i \in 1..Len(l) : l[i].key = k
                  THEN CHOOSE i \in 1..Len(l) : l[i].key = k
                  ELSE 0
LruWithout(l, i) == SubSeq(l, 1, i - 1) \o SubSeq(l, i + 1, Len(l))
LruContains(l, k) == LruIndex(l, k) # 0
LruPeek(l, k) == IF LruContains(l, k) THEN l[LruIndex(l, k)].ptr ELSE NilPtr

\* A lookup that leaves the recency order alone.
LruGetNoPromote(l, k) == l

\* lru.Get(key): the list after the lookup (a hit moves the key to the front).
LruGet(l, k) ==
  LET i == LruIndex(l, k)
  IN  IF i = 0 THEN l ELSE <<l[i]>> \o LruWithout(l, i)

\* lru.Add(key, value)
LruAdd(l, k, p) ==
  LET i == LruIndex(l, k)
      item == [key |-> k, ptr |-> p]
  IN  IF i # 0 THEN <<item>> \o LruWithout(l, i)
      ELSE LET grown == <<item>> \o l
           IN  IF Len(grown) > Capacity THEN SubSeq(grown, 1, Capacity) ELSE grown

\* lru.Remove(key)
LruRemove(l, k) ==
  LET i == LruIndex(l, k)
  IN  IF i = 0 THEN l ELSE LruWithout(l, i)

\* ---------------------------------------------------------------- the cache
\* func (c *Cache) Get(key string) (*Entry, bool): [ptr, ok] and the list after.
CacheGet(l, k) == [ptr |-> LruPeek(l, k), ok |-> LruContains(l, k), lru |-> LruGet(l, k)]

\* A Set that stores the entry as it was given.
SetDefaultsNone(e) == e

\* A Set that fills in the default stale window only.
SetDefaultsStaleOnly(e) == IF e.StaleTTL = 0 THEN [e EXCEPT !.StaleTTL = CacheStaleTTL] ELSE e

\* func (c *Cache) Set(key string, entry *Entry): writes the defaults into the
\* entry object, under c.mu, and adds the pointer.
SetDefaults(e) ==
  LET e1 == IF e.TTL = 0 THEN [e EXCEPT !.TTL = CacheTTL] ELSE e
  IN  IF e1.StaleTTL = 0 THEN [e1 EXCEPT !.StaleTTL = CacheStaleTTL] ELSE e1

CacheSet(l, hp, k, p) ==
  [lru |-> LruAdd(l, k, p), heap |-> [hp EXCEPT ![p] = SetDefaults(hp[p])]]

\* A Delete that drops the most recently used key instead of the key named.
CacheDeleteHead(l, k) == IF LruContains(l, k) THEN Tail(l) ELSE l

\* func (c *Cache) Delete(key string)
CacheDelete(l, k) == LruRemove(l, k)

\* func (c *Cache) Stats() (size int, capacity int)
Stats(l) == [size |-> Len(l), capacity |-> Capacity]

\* Pointers some goroutine or the cache still holds; the garbage collector
\* frees the others, and allocation takes the lowest free pointer.
Roots(l, h, r) ==
  { l[i].ptr : i \in 1..Len(l) }
    \cup { h[x].entry : x \in DOMAIN h } \cup { r[x].entry : x \in DOMAIN r }
Collect(hp, l, h, r) == [p \in Ptrs |-> IF p \in Roots(l, h, r) THEN hp[p] ELSE Nil]
Alloc(hp) == CHOOSE p \in Ptrs : hp[p] = Nil /\ \A q \in Ptrs : hp[q] = Nil => p <= q

\* The order of use the LRU is meant to follow: k becomes the most recent.
\* It records every key Set, evicted or not, and starts over from the keys
\* the cache holds whenever a Delete runs.
Touch(rec, k) == <<k>> \o SelectSeq(rec, LAMBDA x : x # k)

\* ------------------------------------------------------------ initial state
\* A handler goroutine: its locals (req, key, useCache, now, entry, cond), the
\* response it wrote (resp), and what the request did: the origin outcome it
\* got, its Cache.Set calls, its origin calls, the counters it incremented,
\* whether reading the body failed, the bodies it was handed, the Close calls
\* made on them and the cancellations of the origin calls' deadline contexts.
NoInc == [cacheHits |-> 0, cacheMisses |-> 0, cacheStales |-> 0, originErrors |-> 0]
IdleHandler ==
  [pc |-> "idle", req |-> NoRec, key |-> <<>>, useCache |-> FALSE,
   now |-> 0, entry |-> NilPtr, cond |-> NoRec, resp |-> NoRec, outcome |-> None,
   sets |-> 0, calls |-> 0, inc |-> NoInc, afterPurge |-> FALSE,
   readErr |-> FALSE, bodies |-> 0, closes |-> 0, cancels |-> 0]
IdleReval ==
  [pc |-> "idle", key |-> <<>>, entry |-> NilPtr, outcome |-> None, sets |-> 0, calls |-> 0,
   bodies |-> 0, closes |-> 0, cancels |-> 0]
IdlePurge == [pc |-> "idle", body |-> NoRec, rest |-> <<>>, status |-> 0, dels |-> <<>>]
NoOp == [op |-> None, key |-> <<>>, ok |-> FALSE, entry |-> Nil]

\* cache.New(cfg.CacheCapacity, cfg.CacheTTL, cfg.CacheStaleTTL) in server.New:
\* an empty cache; no request is in flight.
InitServer ==
  /\ clock = 0
  /\ lru = <<>>
  /\ heap = [p \in Ptrs |-> Nil]
  /\ origin = [k \in ReqKeys |-> 1]
  /\ hs = [h \in Handlers |-> IdleHandler]
  /\ rv = [r \in Revals |-> IdleReval]
  /\ pg = IdlePurge
  /\ purged = {}
  /\ recency = <<>>
  /\ last = NoOp

Init == InitServer /\ pin = NoRec /\ pout = NoRec

\* ------------------------------------------------------------- purgeHandler
\* The request body: not decodable into the payload struct, or
\* {"keys": [...]} with raw key strings.
Malformed == [json |-> FALSE, keys |-> <<>>]
Payload(ks) == [json |-> TRUE, keys |-> ks]
PaddedKeys(K) == {<<" ">>} \cup { <<" ">> \o k \o <<" ">> : k \in K }
RECURSIVE SeqsUpTo(_, _)
SeqsUpTo(S, n) ==
  IF n = 0 THEN {<<>>}
  ELSE LET shorter == SeqsUpTo(S, n - 1)
       IN  shorter \cup { <<x>> \o q : x \in S, q \in { t \in shorter : Len(t) = n - 1 } }
Payloads(R) == {Malformed} \cup { Payload(ks) : ks \in SeqsUpTo(R, MaxPurgeKeys) }

\* json.NewDecoder(r.Body).Decode(&payload); an error answers 400.
PurgeStart(body) ==
  /\ pg.pc \in {"idle", "done"}
  /\ pg' = IF body.json
           THEN [pc |-> "run", body |-> body, rest |-> body.keys, status |-> 0, dels |-> <<>>]
           ELSE [pc |-> "done", body |-> body, rest |-> <<>>, status |-> 400, dels |-> <<>>]
  /\ UNCHANGED <<clock, lru, heap, origin, hs, rv, purged, recency, last, pin, pout>>

\* One turn of the loop over payload.Keys: blank keys are skipped, the others
\* are deleted, each under its own hold of Cache.mu.
PurgeStep ==
  /\ pg.pc = "run" /\ pg.rest # <<>>
  /\ LET k == TrimSpace(Head(pg.rest))
     IN  IF k = <<>>
         THEN /\ pg' = [pg EXCEPT !.rest = Tail(pg.rest)]
              /\ UNCHANGED <<lru, heap, recency>>
         ELSE /\ pg' = [pg EXCEPT !.rest = Tail(pg.rest), !.dels = Append(pg.dels, cacheKey(k))]
              /\ lru' = CacheDelete(lru, cacheKey(k))
              /\ heap' = Collect(heap, lru', hs, rv)
              /\ recency' = LruKeys(lru')
  /\ UNCHANGED <<clock, origin, hs, rv, purged, last, pin, pout>>

\* w.WriteHeader(http.StatusNoContent)
PurgeRespond ==
  /\ pg.pc = "run" /\ pg.rest = <<>>
  /\ pg' = [pg EXCEPT !.pc = "done", !.status = 204]
  /\ purged' = purged \cup ({ pg.dels[i] : i \in 1..Len(pg.dels) } \cap ReqKeys)
  /\ UNCHANGED <<clock, lru, heap, origin, hs, rv, recency, last, pin, pout>>

\* ------------------------------------------------- the cache on its own
\* Callers of the cache reduced to their cache operations: any Set of a new
\* entry, any Get, any Delete, at any time, next to the purge handler.
NewEntry(body, header, status, storedAt, ttl, staleTtl, etag, lastModified) ==
  [Body |-> body, Header |-> header, Status |-> status, StoredAt |-> storedAt,
   TTL |-> ttl, StaleTTL |-> staleTtl, Size |-> Len(body), ETag |-> etag,
   LastModified |-> lastModified]

SetBodies == {<<1>>, <<2>>}
CacheOpSet(k, ttl, staleTtl) ==
  \E body \in SetBodies :
    LET p == Alloc(heap)
        e == NewEntry(body, <<>>, 200, clock, ttl, staleTtl, 0, NoTime)
        r == CacheSet(lru, [heap EXCEPT ![p] = e], k, p)
    IN  /\ lru' = r.lru
        /\ heap' = Collect(r.heap, lru', hs, rv)
        /\ recency' = Touch(recency, k)
        /\ last' = [op |-> "Set", key |-> k, ok |-> TRUE, entry |-> e]
        /\ UNCHANGED <<clock, origin, hs, rv, pg, purged, pin, pout>>

CacheOpGet(k) ==
  LET r == CacheGet(lru, k)
  IN  /\ lru' = r.lru
      /\ recency' = IF r.ok THEN Touch(recency, k) ELSE recency
      /\ last' = [op |-> "Get", key |-> k, ok |-> r.ok, entry |-> IF r.ok THEN heap[r.ptr] ELSE Nil]
      /\ UNCHANGED <<clock, heap, origin, hs, rv, pg, purged, pin, pout>>

CacheOpDelete(k) ==
  /\ lru' = CacheDelete(lru, k)
  /\ heap' = Collect(heap, lru', hs, rv)
  /\ recency' = LruKeys(lru')
  /\ last' = [op |-> "Delete", key |-> k, ok |-> FALSE, entry |-> Nil]
  /\ UNCHANGED <<clock, origin, hs, rv, pg, purged, pin, pout>>

NextCache ==
  \/ \E k \in Keys, ttl \in {0, CacheTTL + 1}, st \in {0, CacheStaleTTL + 1} : CacheOpSet(k, ttl, st)
  \/ \E k \in Keys : CacheOpGet(k)
  \/ \E k \in Keys : CacheOpDelete(k)

SpecCache == Init /\ [][NextCache]_vars

\* The purge handler next to any other user of the cache.
NextPurge ==
  \/ \E k \in Keys : CacheOpSet(k, 0, 0)
  \/ \E k \in Keys : CacheOpGet(k)
  \/ \E k \in Keys : CacheOpDelete(k)
  \/ \E body \in Payloads(PaddedKeys(Keys)) : PurgeStart(body)
  \/ PurgeStep
  \/ PurgeRespond

SpecPurge == Init /\ [][NextPurge]_vars

\* ------------------------------------------------- freshness on its own
FreshInputs ==
  [e : { NewEntry(<<1>>, <<>>, 200, s, ttl, st, 0, NoTime) :
           s \in 0..MaxTime, ttl \in 0..(CacheTTL + 1), st \in 0..(CacheStaleTTL + 1) },
   t : 0..(MaxTime + CacheTTL + CacheStaleTTL + 2)]

InitFresh == InitServer /\ pin \in FreshInputs /\ pout = NoRec

EvalFreshness ==
  /\ pout = NoRec
  /\ pout' = [fresh |-> Fresh(pin.e, pin.t),
              stale |-> StaleButValid(pin.e, pin.t),
              age |-> Age(pin.e, pin.t),
              freshAtStore |-> Fresh(pin.e, pin.e.StoredAt)]
  /\ UNCHANGED <<clock, lru, heap, origin, hs, rv, pg, purged, recency, last, pin>>

NextFresh == EvalFreshness

SpecFresh == InitFresh /\ [][NextFresh]_vars

\* ---------------------------------------------------------------- requests
\* An object request: the method, the URL path and the headers the handler
\* reads.  An ETag is the version it names, NoETag the empty string.
\* If-Modified-Since is [set, ok, t]: present, parses as http.TimeFormat, and
\* the instant it names.
NoETag == 0
NoIMS == [set |-> FALSE, ok |-> FALSE, t |-> NoTime]
Request(method, path, range, cc, pragma, inm, ims) ==
  [Method |-> method, Path |-> path, Range |-> range, CacheControl |-> cc,
   Pragma |-> pragma, IfNoneMatch |-> inm, IfModifiedSince |-> ims]

\* func shouldUseCache(r *http.Request) bool
shouldUseCache(r) ==
  /\ r.Method = "GET"
  /\ r.Range = ""
  /\ ~ \E i \in 1..Len(r.CacheControl) :
         \/ r.CacheControl[i].name = "no-cache"
         \/ r.CacheControl[i].name = "max-age" /\ r.CacheControl[i].num /\ r.CacheControl[i].arg = 0
  /\ ~ \E i \in 1..Len(r.Pragma) : r.Pragma[i].name = "no-cache"

\* func buildConditional(r *http.Request) *origin.Conditional
buildConditional(r) ==
  [IfNoneMatch |-> r.IfNoneMatch,
   IfModifiedSince |-> IF r.IfModifiedSince.set /\ r.IfModifiedSince.ok
                       THEN r.IfModifiedSince.t ELSE NoTime,
   Range |-> ""]

\* objectHandler, lines 192-204: the hint entry's validators fill what the
\* client left empty; a GET forwards the client's Range.
ComposeCond(r, e) ==
  LET c0 == buildConditional(r)
      c1 == IF e # Nil /\ e.ETag # NoETag /\ c0.IfNoneMatch = NoETag
            THEN [c0 EXCEPT !.IfNoneMatch = e.ETag] ELSE c0
      c2 == IF e # Nil /\ e.LastModified # NoTime /\ c1.IfModifiedSince = NoTime
            THEN [c1 EXCEPT !.IfModifiedSince = e.LastModified] ELSE c1
  IN  IF r.Method = "GET" THEN [c2 EXCEPT !.Range = r.Range] ELSE c2

\* A revalidation that sends no validators.
RevalCondEmpty(e) == [IfNoneMatch |-> NoETag, IfModifiedSince |-> NoTime, Range |-> ""]

\* revalidate, lines 320-327: the conditional of a background revalidation.
RevalCond(e) ==
  [IfNoneMatch |-> IF e.ETag # NoETag THEN e.ETag ELSE NoETag,
   IfModifiedSince |-> IF e.LastModified # NoTime THEN e.LastModified ELSE NoTime,
   Range |-> ""]

\* ------------------------------------------------------------------ origin
\* The bucket holds, for each key, an object at some version v; its ETag and
\* its Last-Modified instant are v.  S3 answers NotModified when the request's
\* If-None-Match names the current ETag or, without If-None-Match, when the
\* object is not newer than If-Modified-Since; it may fail in any other way
\* at any time.  What a successful answer carries besides the version is any
\* of the shapes the caller of the action allows.
ETagOf(v) == v
LastModifiedOf(v) == v
CondHolds(cond, v) ==
  IF cond.IfNoneMatch # NoETag THEN cond.IfNoneMatch = ETagOf(v)
  ELSE cond.IfModifiedSince # NoTime /\ LastModifiedOf(v) <= cond.IfModifiedSince

Shape(cl, cc, cr, n, bad) ==
  [ContentLength |-> cl, CacheControl |-> cc, ContentRange |-> cr, BodyLen |-> n, ReadErr |-> bad]

ErrorCodes == {"NotFound", "NoSuchKey", "NoSuchBucket", "404", "PreconditionFailed",
               "InternalError", "timeout"}

Answers(cond, v, shapes) ==
  { [code |-> c, ver |-> v, shape |-> NoRec] : c \in ErrorCodes }
    \cup (IF CondHolds(cond, v)
          THEN { [code |-> "NotModified", ver |-> v, shape |-> NoRec] }
          ELSE { [code |-> "", ver |-> v, shape |-> sh] : sh \in shapes })

\* Every origin error taken for a NotModified.
translateErrorNotModified(code) == "NotModified"

\* func translateError(err error) error: the outcome the handlers see.
translateError(code) ==
  CASE code \in {"NotFound", "NoSuchKey", "NoSuchBucket", "404"} -> "NotFound"
    [] code = "NotModified" -> "NotModified"
    [] code = "PreconditionFailed" -> "Precondition"
    [] OTHER -> "Transport"

\* The body stream of a GetObject answer: the bytes of version v, read from pos.
Stream(v, sh) == [data |-> [i \in 1..sh.BodyLen |-> v], pos |-> 0, err |-> sh.ReadErr]
NoBody == [data |-> <<>>, pos |-> 0, err |-> FALSE]
Remaining(b) == SubSeq(b.data, b.pos + 1, Len(b.data))

\* io.ReadAll(io.LimitReader(body, n)): the bytes read, the error, the stream after.
ReadAllLimit(b, n) ==
  LET got == SubSeq(b.data, b.pos + 1, Min(Len(b.data), b.pos + n))
  IN  [data |-> got, err |-> b.err, body |-> [b EXCEPT !.pos = b.pos + Len(got)]]

\* func setHeader(h http.Header, key string, value string): skips empty values.
setHeader(h, name, v) == IF v = <<>> THEN h ELSE HSet(h, name, v)

\* func toObject(resp *s3.GetObjectOutput, status int) *Object
toObject(ans, status) ==
  LET sh == ans.shape
      h1 == setHeader(<<>>, "Cache-Control", sh.CacheControl)
      h2 == setHeader(h1, "Last-Modified", <<LastModifiedOf(ans.ver)>>)
      h3 == setHeader(h2, "ETag", <<ETagOf(ans.ver)>>)
      h4 == setHeader(h3, "Content-Range", IF sh.ContentRange = "" THEN <<>> ELSE <<sh.ContentRange>>)
      h5 == HSet(h4, "Content-Length", <<sh.ContentLength>>)
  IN  [Body |-> Stream(ans.ver, sh), Headers |-> h5,
       StatusCode |-> IF sh.ContentRange # "" THEN 206 ELSE status,
       ContentLength |-> sh.ContentLength, ETag |-> ETagOf(ans.ver),
       LastModified |-> LastModifiedOf(ans.ver)]

\* func toHeadObject(resp *s3.HeadObjectOutput) *Object
toHeadObject(ans) ==
  LET sh == ans.shape
      h1 == setHeader(<<>>, "Cache-Control", sh.CacheControl)
      h2 == setHeader(h1, "Last-Modified", <<LastModifiedOf(ans.ver)>>)
      h3 == setHeader(h2, "ETag", <<ETagOf(ans.ver)>>)
  IN  [Body |-> NoBody, Headers |-> h3, StatusCode |-> 200,
       ContentLength |-> sh.ContentLength, ETag |-> ETagOf(ans.ver),
       LastModified |-> LastModifiedOf(ans.ver)]

\* ---------------------------------------------------------------- responses
\* What the handler wrote to the ResponseWriter: status, headers, body, and
\* where the body came from ("cache", "origin", "error" text, "none").
Response(status, header, body, from) ==
  [status |-> status, header |-> header, body |-> body, from |-> from]

\* Every error answered as a bad gateway.
ErrorResponseBadGateway(status) == Response(502, <<>>, <<>>, "error")

\* http.Error / http.NotFound
ErrorResponse(status) == Response(status, <<>>, <<>>, "error")

\* func (s *Server) writeCacheEntry(w, r, entry, now, state)
writeCacheEntry(r, e, now, state) ==
  LET h1 == copyHeaders(<<>>, e.Header)
      h2 == HSet(h1, "Age", <<Age(e, now)>>)
      h3 == HSet(h2, "X-Cache", <<state>>)
  IN  Response(e.Status, h3, IF r.Method = "HEAD" THEN <<>> ELSE e.Body, "cache")

\* objectHandler, lines 247-261: the origin's answer passed through.
passThrough(r, obj) ==
  LET h1 == copyHeaders(<<>>, obj.Headers)
      h2 == HSet(h1, "X-Cache", <<"MISS">>)
      h3 == IF obj.ContentLength > 0 THEN HSet(h2, "Content-Length", <<obj.ContentLength>>) ELSE h2
  IN  Response(obj.StatusCode, h3,
               IF r.Method = "HEAD" THEN <<>> ELSE Remaining(obj.Body), "origin")

XCache(resp) == HGet(resp.header, "X-Cache")

\* ------------------------------------------------------------ objectHandler
\* A return that leaves the body open.
ReturnedUnclosed(x) == x

\* defer obj.Body.Close(), registered when the body is not nil, runs as the
\* function returns; cancelReadCloser.Close cancels the call's context and
\* closes the body.
Returned(x) == [x EXCEPT !.closes = @ + x.bodies, !.cancels = @ + x.bodies]

\* Client.GetObject / Client.HeadObject as the caller sees them end: a failed
\* GetObject cancels its context, HeadObject always does (defer cancel()), a
\* successful GetObject hands over a body that holds the cancel function.
Called(x, outcome, method) ==
  [x EXCEPT !.calls = @ + 1, !.outcome = outcome,
            !.bodies = IF outcome = "Success" /\ method # "HEAD" THEN 1 ELSE 0,
            !.cancels = IF outcome = "Success" /\ method # "HEAD" THEN @ ELSE @ + 1]

\* The goroutine after it has written its response: locals are dropped, the
\* record of the request stays until the goroutine serves the next one.
Finished(x, resp) ==
  [Returned(x) EXCEPT !.pc = "done", !.resp = resp, !.now = 0, !.entry = NilPtr, !.cond = NoRec]

Bump(x, counter) == [x EXCEPT !.inc[counter] = @ + 1]

\* objectHandler, lines 152-190: admission control, then the cache lookup.
\* Cache.Get and the read of the entry's freshness are one step; an entry
\* that is not fresh is looked at again in HStaleCheck.
HStart(h, r) ==
  /\ hs[h].pc \in {"idle", "done"}
  /\ LET key == TrimPrefix(r.Path, <<"/">>)
         useCache == shouldUseCache(r)
         lookupCache == useCache \/ r.Method = "HEAD"
         cKey == cacheKey(key)
         g == CacheGet(lru, cKey)
         x == [IdleHandler EXCEPT !.req = r, !.key = key, !.useCache = useCache, !.now = clock,
                                  !.afterPurge = useCache /\ cKey \in purged]
     IN  IF key = <<>>
         THEN /\ hs' = [hs EXCEPT ![h] = Finished([IdleHandler EXCEPT !.req = r], ErrorResponse(404))]
              /\ UNCHANGED <<lru, recency, purged>>
         ELSE IF Contains(key, <<".", ".">>)
         THEN /\ hs' = [hs EXCEPT ![h] = Finished([IdleHandler EXCEPT !.req = r], ErrorResponse(400))]
              /\ UNCHANGED <<lru, recency, purged>>
         ELSE IF r.Method \notin {"GET", "HEAD"}
         THEN /\ hs' = [hs EXCEPT ![h] = Finished([IdleHandler EXCEPT !.req = r], ErrorResponse(405))]
              /\ UNCHANGED <<lru, recency, purged>>
         ELSE /\ purged' = IF useCache THEN purged \ {cKey} ELSE purged
              /\ IF lookupCache /\ g.ok
                 THEN /\ lru' = g.lru
                      /\ recency' = Touch(recency, cKey)
                      /\ IF Fresh(heap[g.ptr], clock)
                         THEN hs' = [hs EXCEPT ![h] =
                                Finished(Bump(x, "cacheHits"),
                                         writeCacheEntry(r, heap[g.ptr], clock, "HIT"))]
                         ELSE hs' = [hs EXCEPT ![h] = [x EXCEPT !.pc = "stale", !.entry = g.ptr]]
                 ELSE /\ hs' = [hs EXCEPT ![h] = [x EXCEPT !.pc = "fetch", !.cond = ComposeCond(r, Nil)]]
                      /\ UNCHANGED <<lru, recency>>
  /\ heap' = Collect(heap, lru', hs', rv)
  /\ UNCHANGED <<clock, origin, rv, pg, last, pin, pout>>

\* objectHandler, lines 183-204: a stale entry inside its window answers a
\* cacheable GET and a revalidation goroutine is started; otherwise the entry
\* stays as the hint of the conditional fetch.
HStaleCheck(h) ==
  /\ hs[h].pc = "stale"
  /\ LET x == hs[h]
         e == heap[x.entry]
     IN  IF x.useCache /\ StaleButValid(e, x.now) /\ x.req.Method = "GET"
         THEN \E r \in Revals :
                /\ rv[r].pc = "idle"
                /\ \A q \in Revals : rv[q].pc = "idle" => r <= q
                /\ rv' = [rv EXCEPT ![r] = [IdleReval EXCEPT !.pc = "fetch", !.key = x.key,
                                                             !.entry = x.entry]]
                /\ hs' = [hs EXCEPT ![h] =
                       Finished(Bump(x, "cacheStales"), writeCacheEntry(x.req, e, x.now, "STALE"))]
         ELSE /\ hs' = [hs EXCEPT ![h] = [x EXCEPT !.pc = "fetch", !.cond = ComposeCond(x.req, e)]]
              /\ UNCHANGED rv
  /\ heap' = Collect(heap, lru, hs', rv')
  /\ UNCHANGED <<clock, lru, origin, pg, purged, recency, last, pin, pout>>

\* objectHandler, lines 215-237: the admission decision on a successful fetch.
shouldStore(x, obj) ==
  /\ x.useCache
  /\ x.req.Method = "GET"
  /\ x.cond.Range = ""
  /\ obj.StatusCode = 200
  /\ obj.ContentLength > 0
  /\ obj.ContentLength <= MaxObjectSize
  /\ ~hasNoStore(obj.Headers)

\* objectHandler, lines 227-240: the entry built from a buffered body.
HandlerEntry(obj, body, now) ==
  LET e == NewEntry(body, cloneHeader(obj.Headers), obj.StatusCode, now,
                    ttlFromHeaders(obj.Headers, CacheTTL), CacheStaleTTL,
                    obj.ETag, obj.LastModified)
  IN  IF e.TTL <= 0 THEN [e EXCEPT !.TTL = CacheTTL] ELSE e

\* fetchFromOrigin and what follows it up to the next access to the cache:
\* handleOriginError for an error, the admission decision and the buffering
\* of the body, or the pass-through, for a success.
HFetch(h, ans) ==
  /\ hs[h].pc = "fetch"
  /\ LET x0 == hs[h]
         outcome == IF ans.code = "" THEN "Success" ELSE translateError(ans.code)
         x == Called(x0, outcome, x0.req.Method)
         obj == IF x.req.Method = "HEAD" THEN toHeadObject(ans) ELSE toObject(ans, 200)
         rd == ReadAllLimit(obj.Body, MaxObjectSize + 1)
         p == Alloc(heap)
     IN  CASE outcome = "NotModified" /\ x.entry # NilPtr ->
                /\ hs' = [hs EXCEPT ![h] = [x EXCEPT !.pc = "refresh"]]
                /\ heap' = heap
           [] outcome = "NotModified" /\ x.entry = NilPtr ->
                /\ hs' = [hs EXCEPT ![h] = Finished(x, Response(304, <<>>, <<>>, "none"))]
                /\ heap' = Collect(heap, lru, hs', rv)
           [] outcome = "NotFound" ->
                /\ hs' = [hs EXCEPT ![h] = Finished(x, ErrorResponse(404))]
                /\ heap' = Collect(heap, lru, hs', rv)
           [] outcome = "Precondition" ->
                /\ hs' = [hs EXCEPT ![h] = Finished(x, ErrorResponse(412))]
                /\ heap' = Collect(heap, lru, hs', rv)
           [] outcome = "Transport" ->
                /\ hs' = [hs EXCEPT ![h] = Finished(Bump(x, "originErrors"), ErrorResponse(502))]
                /\ heap' = Collect(heap, lru, hs', rv)
           [] outcome = "Success" /\ shouldStore(x, obj) /\ rd.err ->
                /\ hs' = [hs EXCEPT ![h] = Finished([x EXCEPT !.readErr = TRUE], ErrorResponse(502))]
                /\ heap' = Collect(heap, lru, hs', rv)
           [] outcome = "Success" /\ shouldStore(x, obj) /\ ~rd.err /\ Len(rd.data) <= MaxObjectSize ->
                /\ hs' = [hs EXCEPT ![h] = [Bump(x, "cacheMisses") EXCEPT !.pc = "admit", !.entry = p]]
                /\ heap' = Collect([heap EXCEPT ![p] = HandlerEntry(obj, rd.data, x.now)], lru, hs', rv)
           [] outcome = "Success" /\ shouldStore(x, obj) /\ ~rd.err /\ Len(rd.data) > MaxObjectSize ->
                /\ hs' = [hs EXCEPT ![h] =
                       Finished(Bump(x, "cacheMisses"), passThrough(x.req, [obj EXCEPT !.Body = rd.body]))]
                /\ heap' = Collect(heap, lru, hs', rv)
           [] outcome = "Success" /\ ~shouldStore(x, obj) ->
                /\ hs' = [hs EXCEPT ![h] = Finished(Bump(x, "cacheMisses"), passThrough(x.req, obj))]
                /\ heap' = Collect(heap, lru, hs', rv)
  /\ UNCHANGED <<clock, lru, origin, rv, pg, purged, recency, last, pin, pout>>

\* handleOriginError, line 282: entry.StoredAt = now, written to the entry
\* object the hint points to, outside Cache.mu.
HRefresh(h) ==
  /\ hs[h].pc = "refresh"
  /\ heap' = [heap EXCEPT ![hs[h].entry].StoredAt = hs[h].now]
  /\ hs' = [hs EXCEPT ![h].pc = "admit"]
  /\ UNCHANGED <<clock, lru, origin, rv, pg, purged, recency, last, pin, pout>>

\* s.cache.Set(cKey, e) and the response written from the entry: lines
\* 241-243 after a buffered miss, lines 283-286 after a NotModified.
HAdmit(h) ==
  /\ hs[h].pc = "admit"
  /\ LET x == hs[h]
         cKey == cacheKey(x.key)
         c == CacheSet(lru, heap, cKey, x.entry)
         e == c.heap[x.entry]
     IN  /\ lru' = c.lru
         /\ recency' = Touch(recency, cKey)
         /\ hs' = [hs EXCEPT ![h] =
                IF x.outcome = "NotModified"
                THEN Finished(Bump([x EXCEPT !.sets = @ + 1], "cacheHits"),
                              writeCacheEntry(x.req, e, x.now, "REVALIDATED"))
                ELSE Finished([x EXCEPT !.sets = @ + 1], writeCacheEntry(x.req, e, x.now, "MISS"))]
         /\ heap' = Collect(c.heap, lru', hs', rv)
  /\ UNCHANGED <<clock, origin, rv, pg, purged, last, pin, pout>>

\* --------------------------------------------------------------- revalidate
\* revalidate, lines 342-359: the entry built from a revalidation's answer.
RevalEntry(obj, body, now) ==
  NewEntry(body, cloneHeader(obj.Headers), obj.StatusCode, now,
           ttlFromHeaders(obj.Headers, CacheTTL), CacheStaleTTL, obj.ETag, obj.LastModified)

\* revalidate, lines 317-359 up to the next access to the cache: the
\* conditional GetObject and, on a success, the checks and the buffering.
RFetch(r, ans) ==
  /\ rv[r].pc = "fetch"
  /\ LET outcome == IF ans.code = "" THEN "Success" ELSE translateError(ans.code)
         x == Called(rv[r], outcome, "GET")
         obj == toObject(ans, 200)
         rd == ReadAllLimit(obj.Body, MaxObjectSize + 1)
         p == Alloc(heap)
     IN  CASE outcome = "NotModified" ->
                /\ rv' = [rv EXCEPT ![r] = [x EXCEPT !.pc = "refresh"]]
                /\ heap' = heap
           [] outcome = "Success" /\ obj.ContentLength > 0 /\ obj.ContentLength <= MaxObjectSize
                /\ ~rd.err /\ Len(rd.data) <= MaxObjectSize ->
                /\ rv' = [rv EXCEPT ![r] = [x EXCEPT !.pc = "admit", !.entry = p]]
                /\ heap' = Collect([heap EXCEPT ![p] = RevalEntry(obj, rd.data, clock)], lru, hs, rv')
           [] OTHER ->
                /\ rv' = [rv EXCEPT ![r] = [Returned(x) EXCEPT !.pc = "idle", !.entry = NilPtr]]
                /\ heap' = Collect(heap, lru, hs, rv')
  /\ UNCHANGED <<clock, lru, origin, hs, pg, purged, recency, last, pin, pout>>

\* A revalidation that re-admits the entry with the storedAt it had.
RRefreshKeepsStoredAt(r) ==
  /\ rv[r].pc = "refresh"
  /\ rv' = [rv EXCEPT ![r].pc = "admit"]
  /\ UNCHANGED <<clock, lru, heap, origin, hs, pg, purged, recency, last, pin, pout>>

\* revalidate, line 331: entry.StoredAt = time.Now(), outside Cache.mu.
RRefresh(r) ==
  /\ rv[r].pc = "refresh"
  /\ heap' = [heap EXCEPT ![rv[r].entry].StoredAt = clock]
  /\ rv' = [rv EXCEPT ![r].pc = "admit"]
  /\ UNCHANGED <<clock, lru, origin, hs, pg, purged, recency, last, pin, pout>>

\* A revalidation that, having Set its entry, asks the origin again.
RAdmitRetry(r) ==
  /\ rv[r].pc = "admit"
  /\ rv' = [rv EXCEPT ![r].pc = "fetch", ![r].sets = @ + 1]
  /\ UNCHANGED <<clock, lru, heap, origin, hs, pg, purged, recency, last, pin, pout>>

\* revalidate, lines 332 and 360: s.cache.Set(cacheKey(key), ...); the
\* goroutine ends.
RAdmit(r) ==
  /\ rv[r].pc = "admit"
  /\ LET x == rv[r]
         cKey == cacheKey(x.key)
         c == CacheSet(lru, heap, cKey, x.entry)
     IN  /\ lru' = c.lru
         /\ recency' = Touch(recency, cKey)
         /\ rv' = [rv EXCEPT ![r] = [Returned(x) EXCEPT !.pc = "idle", !.entry = NilPtr, !.sets = @ + 1]]
         /\ heap' = Collect(c.heap, lru', hs, rv')
  /\ UNCHANGED <<clock, origin, hs, pg, purged, last, pin, pout>>

\* -------------------------------------------------------------- environment
Tick ==
  /\ clock < MaxTime
  /\ clock' = clock + 1
  /\ UNCHANGED <<lru, heap, origin, hs, rv, pg, purged, recency, last, pin, pout>>

\* The object of key k is overwritten in the bucket.
OriginPut(k) ==
  /\ origin[k] < MaxVer
  /\ origin' = [origin EXCEPT ![k] = @ + 1]
  /\ UNCHANGED <<clock, lru, heap, hs, rv, pg, purged, recency, last, pin, pout>>

\* ------------------------------------------------------------- the server
\* The requests clients send: on a key of the bucket a GET or a HEAD, plain,
\* with Range, with Cache-Control: no-cache or with If-None-Match, and
\* another method; a GET on the root and on a key with a parent segment.
ObjectPaths == { <<"/">> \o k : k \in ReqKeys }
NoCache == <<Directive("no-cache")>>
Requests ==
  { Request(m, p, rg, <<>>, <<>>, NoETag, NoIMS) :
      m \in {"GET", "HEAD"}, p \in ObjectPaths, rg \in {"", "bytes=0-0"} }
    \cup { Request(m, p, "", NoCache, <<>>, NoETag, NoIMS) : m \in {"GET", "HEAD"}, p \in ObjectPaths }
    \cup { Request("GET", p, "", <<>>, <<>>, 1, NoIMS) : p \in ObjectPaths }
    \cup { Request("POST", p, "", <<>>, <<>>, NoETag, NoIMS) : p \in ObjectPaths }
    \cup { Request("GET", p, "", <<>>, <<>>, NoETag, NoIMS) : p \in {<<"/">>, <<"/", ".", ".">>} }

\* A plain answer: one byte, no Cache-Control.
PlainShapes == { Shape(1, <<>>, "", 1, FALSE) }

\* What GetObject / HeadObject can answer handler h.
HandlerAnswers(h, shapes) ==
  IF hs[h].pc = "fetch" THEN Answers(hs[h].cond, origin[hs[h].key], shapes) ELSE {}

\* What GetObject can answer revalidation r: its conditional is built from
\* the entry it was started with.
RevalAnswers(r, shapes) ==
  IF rv[r].pc = "fetch"
  THEN Answers(RevalCond(heap[rv[r].entry]), origin[rv[r].key], shapes) ELSE {}

Next ==
  \/ \E h \in Handlers, r \in Requests : HStart(h, r)
  \/ \E h \in Handlers : HStaleCheck(h)
  \/ \E h \in Handlers : \E ans \in HandlerAnswers(h, PlainShapes) : HFetch(h, ans)
  \/ \E h \in Handlers : HRefresh(h)
  \/ \E h \in Handlers : HAdmit(h)
  \/ \E r \in Revals : \E ans \in RevalAnswers(r, PlainShapes) : RFetch(r, ans)
  \/ \E r \in Revals : RRefresh(r)
  \/ \E r \in Revals : RAdmit(r)
  \/ \E k \in ReqKeys : PurgeStart(Payload(<<k>>))
  \/ PurgeStep
  \/ PurgeRespond
  \/ \E k \in ReqKeys : OriginPut(k)
  \/ Tick

Spec == Init /\ [][Next]_vars

\* ------------------------------------------------- admission on its own
\* Cacheable and ranged GETs and a HEAD against an origin whose successful answers take
\* the shapes that differ from the plain one in one respect: a declared
\* Content-Length or a body length from nothing to one byte over the limit, a
\* Cache-Control that is no-store or max-age with an unparsable, a negative, a
\* zero, a small or a wrapping argument, a Content-Range, a body whose read fails.
WrapAge == (DurHalf + Second - 1) \div Second
CacheControls ==
  {<<>>, <<Directive("no-store")>>, <<MaxAgeBad>>, <<MaxAgeDir(0 - 1)>>, <<MaxAgeDir(0)>>,
   <<MaxAgeDir(1)>>, <<MaxAgeDir(WrapAge)>>}
AdmitShapes ==
  { Shape(cl, <<>>, "", 1, FALSE) : cl \in 0..(MaxObjectSize + 1) }
    \cup { Shape(1, cc, "", 1, FALSE) : cc \in CacheControls }
    \cup { Shape(1, <<>>, cr, 1, FALSE) : cr \in {"", "bytes 0-0/1"} }
    \cup { Shape(1, <<>>, "", n, bad) : n \in 1..(MaxObjectSize + 1), bad \in BOOLEAN }
AdmitRequests ==
  { Request("GET", p, rg, <<>>, <<>>, NoETag, NoIMS) : p \in ObjectPaths, rg \in {"", "bytes=0-0"} }
    \cup { Request("HEAD", p, "", <<>>, <<>>, NoETag, NoIMS) : p \in ObjectPaths }

NextAdmit ==
  \/ \E h \in Handlers, r \in AdmitRequests : HStart(h, r)
  \/ \E h \in Handlers : HStaleCheck(h)
  \/ \E h \in Handlers : \E ans \in HandlerAnswers(h, AdmitShapes) : HFetch(h, ans)
  \/ \E h \in Handlers : HRefresh(h)
  \/ \E h \in Handlers : HAdmit(h)
  \/ \E r \in Revals : \E ans \in RevalAnswers(r, AdmitShapes) : RFetch(r, ans)
  \/ \E r \in Revals : RRefresh(r)
  \/ \E r \in Revals : RAdmit(r)
  \/ \E k \in ReqKeys : OriginPut(k)
  \/ Tick

SpecAdmit == Init /\ [][NextAdmit]_vars

\* =================================================================== claims
\* The entries the cache holds.
Cached == { heap[lru[i].ptr] : i \in 1..Len(lru) }

\* C1: no entry built from an origin answer whose Content-Length exceeds
\* MaxObjectSize or whose Cache-Control contains no-store is admitted, by the
\* handler or by a revalidation.  An entry's Header is the copy of the answer's
\* headers, so the statement is about every entry the cache holds.
C1_NoAdmissionOfNoStoreOrOversize ==
  \A e \in Cached :
    /\ ~hasNoStore(e.Header)
    /\ \A i \in 1..Len(HGet(e.Header, "Content-Length")) :
         HGet(e.Header, "Content-Length")[i] <= MaxObjectSize

\* C6: every entry the cache holds has status 200.
C6_CachedStatusIs200 == \A e \in Cached : e.Status = 200

\* C7: every entry the cache holds has ttl >= 0, staleTtl >= 0, size = |body|
\* and size <= MaxObjectSize.
C7_CachedEntryBounds ==
  \A e \in Cached :
    /\ e.TTL >= 0
    /\ e.StaleTTL >= 0
    /\ e.Size = Len(e.Body)
    /\ e.Size <= MaxObjectSize

\* What the cache holds, key by key.
CacheContents(l, hp) ==
  [k \in { l[i].key : i \in 1..Len(l) } |-> hp[LruPeek(l, k)]]

\* A finished object request that carried Range or Cache-Control: no-cache.
Bypassing(x) ==
  /\ x.pc = "done"
  /\ x.req.Method \in {"GET", "HEAD"}
  /\ x.key \in ReqKeys
  /\ \/ x.req.Range # ""
     \/ \E i \in 1..Len(x.req.CacheControl) : x.req.CacheControl[i].name = "no-cache"

\* C2: a GET or HEAD with Range or Cache-Control: no-cache is answered with
\* X-Cache MISS if with any X-Cache at all, and performs no Cache.Set.
C2_BypassIsMissAndSetsNothing ==
  \A h \in Handlers :
    Bypassing(hs[h]) =>
      /\ XCache(hs[h].resp) \in {<<>>, <<"MISS">>}
      /\ hs[h].sets = 0

\* C3: the first cacheable GET for k started after a purge of k answered 204
\* contacts the origin and is not answered HIT, STALE or REVALIDATED.
C3_MissAfterPurge ==
  \A h \in Handlers :
    (hs[h].pc = "done" /\ hs[h].afterPurge) =>
      /\ hs[h].calls >= 1
      /\ XCache(hs[h].resp) \notin {<<"HIT">>, <<"STALE">>, <<"REVALIDATED">>}

\* C4: Fresh and StaleButValid are disjoint, StaleButValid(e,t) is exactly
\* storedAt + ttl <= t < storedAt + ttl + staleTtl, and Fresh(e, e.storedAt)
\* is e.ttl > 0.
C4_FreshAndStaleDisjoint ==
  pout # NoRec =>
    LET e == pin.e
        t == pin.t
    IN  /\ pout.fresh => ~pout.stale
        /\ pout.stale <=> (e.StoredAt + e.TTL <= t /\ t < e.StoredAt + e.TTL + e.StaleTTL)
        /\ pout.freshAtStore <=> (e.TTL > 0)

\* C5: the cache never holds more than Capacity keys; once more than Capacity
\* distinct keys have been Set (with Gets in between) the size is Capacity;
\* the keys held are the Capacity most recently touched by Get or Set, in that
\* order; the key just Set is held.
C5_LruBound ==
  /\ Stats(lru).size <= Stats(lru).capacity
  /\ Len(recency) > Capacity => Stats(lru).size = Capacity
  /\ LruKeys(lru) = SubSeq(recency, 1, Min(Capacity, Len(recency)))
  /\ last.op = "Set" => CacheGet(lru, last.key).ok

C5_Witness ==
  /\ Len(recency) > Capacity
  /\ Stats(lru).size = Capacity
  /\ last.op = "Set"
  /\ recency[Len(recency)] # LruKeys(lru)[Len(lru)]

\* C8: no step other than a Cache.Set, made under the cache's lock, changes a
\* field of an entry the cache holds.
LockedSet ==
  \/ \E h \in Handlers : hs[h].pc = "admit" /\ hs'[h].pc = "done"
  \/ \E r \in Revals : rv[r].pc = "admit" /\ rv'[r].pc = "idle"
C8_EntriesChangeOnlyUnderLock ==
  [][ (\E i \in 1..Len(lru) : heap'[lru[i].ptr] \notin {heap[lru[i].ptr], Nil}) => LockedSet ]_vars

\* The keys a purge payload names once trimmed, the blank ones left out.
TrimmedKeys(ks) ==
  SelectSeq([i \in 1..Len(ks) |-> cacheKey(TrimSpace(ks[i]))], LAMBDA k : k # <<>>)

\* C9: Delete(k); Delete(k) leaves the cache as Delete(k) does, Get(k) is then
\* a miss, the other keys keep their entries and their order; a malformed
\* purge answers 400 and deletes nothing, a well-formed one deletes each
\* non-empty trimmed key and answers 204.
C9_DeleteAlgebra ==
  \A k \in Keys :
    LET once == CacheDelete(lru, k)
    IN  /\ CacheDelete(once, k) = once
        /\ ~CacheGet(once, k).ok
        /\ once = SelectSeq(lru, LAMBDA item : item.key # k)
C9_PurgeAnswer ==
  pg.pc = "done" =>
    /\ pg.status = IF pg.body.json THEN 204 ELSE 400
    /\ pg.dels = IF pg.body.json THEN TrimmedKeys(pg.body.keys) ELSE <<>>
C9_PurgeFrame ==
  /\ (pg' # pg /\ Len(pg'.dels) = Len(pg.dels)) =>
       (lru' = lru /\ heap' = heap)
  /\ (pg' # pg /\ Len(pg'.dels) > Len(pg.dels)) =>
       LET k == pg'.dels[Len(pg'.dels)]
       IN  /\ ~CacheGet(lru', k).ok
           /\ lru' = SelectSeq(lru, LAMBDA item : item.key # k)
           /\ \A i \in 1..Len(lru') : heap'[lru'[i].ptr] = heap[lru'[i].ptr]
  /\ (last' # last /\ last'.op = "Delete") =>
       /\ ~CacheGet(lru', last'.key).ok
       /\ lru' = SelectSeq(lru, LAMBDA item : item.key # last'.key)
       /\ CacheContents(lru', heap') = CacheContents(lru', heap)
C9_PurgeIdempotent == [](C9_DeleteAlgebra /\ C9_PurgeAnswer) /\ [][C9_PurgeFrame]_vars

C9_Witness ==
  /\ pg.pc = "done" /\ pg.status = 204
  /\ pg.dels # <<>>
  /\ lru # <<>>

\* C10: a handler whose fetch ended NotFound, Precondition or Transport
\* answers 404, 412 or 502 with an error text, never from the entry it found;
\* it makes no Cache.Set and none of its steps changes what the cache holds;
\* only Transport increments originErrors.
ErrorOutcomes == {"NotFound", "Precondition", "Transport"}
C10_ErrorAnswer ==
  \A h \in Handlers :
    (hs[h].pc = "done" /\ hs[h].outcome \in ErrorOutcomes) =>
      /\ hs[h].resp.status = CASE hs[h].outcome = "NotFound" -> 404
                               [] hs[h].outcome = "Precondition" -> 412
                               [] hs[h].outcome = "Transport" -> 502
      /\ hs[h].resp.from = "error"
      /\ XCache(hs[h].resp) = <<>>
      /\ hs[h].sets = 0
      /\ hs[h].inc = [NoInc EXCEPT !.originErrors = IF hs[h].outcome = "Transport" THEN 1 ELSE 0]
C10_ErrorFrame ==
  \A h \in Handlers :
    (hs'[h] # hs[h] /\ (hs'[h].pc \in {"stale", "fetch"} \/ hs'[h].outcome \in ErrorOutcomes)) =>
      CacheContents(lru', heap') = CacheContents(lru, heap)
C10_OriginErrorsLeaveCache == []C10_ErrorAnswer /\ [][C10_ErrorFrame]_vars

C10_Witness ==
  \E h \in Handlers :
    /\ hs[h].pc = "done" /\ hs[h].outcome = "Transport"
    /\ CacheGet(lru, hs[h].key).ok
    /\ ~Fresh(heap[LruPeek(lru, hs[h].key)], clock)

\* C11: a handler whose read of the origin body failed while buffering for
\* admission passes the origin's answer through: the origin's status and
\* headers with X-Cache MISS, no error status, and no Cache.Set.
C11_ReadErrorDegradesToPassThrough ==
  \A h \in Handlers :
    (hs[h].pc = "done" /\ hs[h].readErr) =>
      /\ hs[h].resp.from = "origin"
      /\ hs[h].resp.status \in {200, 206}
      /\ XCache(hs[h].resp) = <<"MISS">>
      /\ hs[h].sets = 0

\* ------------------------------------------------- admin authentication
\* strings.ToLower, on the letters the model's strings use.
LowerOf == [c \in {"A", "B", "E", "R"} |->
              CASE c = "A" -> "a" [] c = "B" -> "b" [] c = "E" -> "e" [] c = "R" -> "r"]
ToLower(s) == [i \in 1..Len(s) |-> IF s[i] \in DOMAIN LowerOf THEN LowerOf[s[i]] ELSE s[i]]

\* func subtleConstantTimeEquals(a, b string) bool
subtleConstantTimeEquals(a, b) ==
  IF Len(a) = 0 \/ Len(b) = 0 THEN FALSE
  ELSE IF Len(a) # Len(b) THEN FALSE
  ELSE a = b

\* func checkToken(r *http.Request, expected string) bool
checkToken(r, expected) ==
  IF expected = <<>> THEN TRUE
  ELSE LET t1 == r.XAuthToken
           low == ToLower(r.Authorization)
           t2 == IF t1 = <<>> /\ HasPrefix(low, <<"b", "e", "a", "r", "e", "r", " ">>)
                 THEN TrimSpace(TrimPrefix(low, <<"b", "e", "a", "r", "e", "r", " ">>))
                 ELSE t1
           t3 == IF t2 = <<>> THEN r.QueryToken ELSE t2
       IN  subtleConstantTimeEquals(t3, expected)

\* func (s *Server) authMiddleware(next http.Handler) http.Handler: the
\* request goes on to the admin handler or is answered 401.
authMiddleware(r, authTok) == IF checkToken(r, authTok) THEN [next |-> TRUE, status |-> 0]
                              ELSE [next |-> FALSE, status |-> 401]

\* Admin requests and configured tokens: tokens that differ in case only, each
\* channel empty or carrying either token, the Authorization header with
\* the Bearer scheme in three spellings or with another scheme.
Tokens == {<<"a">>, <<"A">>}
Schemes == {<<"B", "e", "a", "r", "e", "r", " ">>, <<"b", "e", "a", "r", "e", "r", " ">>,
            <<"B", "E", "A", "R", "E", "R", " ">>}
Authorizations ==
  {<<>>} \cup { sc \o t : sc \in Schemes, t \in Tokens }
         \cup { <<"B", "a", "s", "i", "c", " ">> \o t : t \in Tokens }
AuthInputs ==
  [authTok : {<<>>} \cup Tokens,
   r : [XAuthToken : {<<>>} \cup Tokens, Authorization : Authorizations,
        QueryToken : {<<>>} \cup Tokens]]

InitAuth == InitServer /\ pin \in AuthInputs /\ pout = NoRec

EvalAuth ==
  /\ pout = NoRec
  /\ pout' = authMiddleware(pin.r, pin.authTok)
  /\ UNCHANGED <<clock, lru, heap, origin, hs, rv, pg, purged, recency, last, pin>>

NextAuth == EvalAuth

SpecAuth == InitAuth /\ [][NextAuth]_vars

\* The token T is presented through one of the three channels: the
\* X-Auth-Token header, Authorization with the Bearer scheme in any case and
\* the token as given, or the query parameter token.
Presented(r, T) ==
  \/ r.XAuthToken = T
  \/ \E sc \in Schemes : r.Authorization = sc \o T
  \/ r.QueryToken = T

\* C12: with an empty configured token every admin request is accepted; with
\* a token T a request is accepted when T is presented through any one of the
\* three channels and answered 401 when it is presented through none.
C12_TokenAcceptedOnAnyChannel ==
  pout # NoRec =>
    IF pin.authTok = <<>> THEN pout.next
    ELSE /\ Presented(pin.r, pin.authTok) => pout.next
         /\ ~Presented(pin.r, pin.authTok) => (~pout.next /\ pout.status = 401)

\* ---------------------------------------------------- serving on its own
\* Object requests that use the cache or bypass it, against an origin whose
\* successful answers carry no Cache-Control or a max-age of two seconds, so
\* that an entry can be fresh at an age of a whole second.
ServeRequests ==
  { Request(m, p, "", <<>>, <<>>, NoETag, NoIMS) : m \in {"GET", "HEAD"}, p \in ObjectPaths }
    \cup { Request("GET", p, "", NoCache, <<>>, NoETag, NoIMS) : p \in ObjectPaths }
    \cup { Request("HEAD", p, "bytes=0-0", <<>>, <<>>, NoETag, NoIMS) : p \in ObjectPaths }
ServeShapes == { Shape(1, cc, "", 1, FALSE) : cc \in {<<>>, <<MaxAgeDir(2)>>} }

NextServe ==
  \/ \E h \in Handlers, r \in ServeRequests : HStart(h, r)
  \/ \E h \in Handlers : HStaleCheck(h)
  \/ \E h \in Handlers : \E ans \in HandlerAnswers(h, ServeShapes) : HFetch(h, ans)
  \/ \E h \in Handlers : HRefresh(h)
  \/ \E h \in Handlers : HAdmit(h)
  \/ \E r \in Revals : \E ans \in RevalAnswers(r, ServeShapes) : RFetch(r, ans)
  \/ \E r \in Revals : RRefresh(r)
  \/ \E r \in Revals : RAdmit(r)
  \/ \E k \in ReqKeys : OriginPut(k)
  \/ Tick

SpecServe == Init /\ [][NextServe]_vars

\* Handler h takes up an object request that looks the cache up.
TakesUpLookup(h) ==
  /\ hs[h].pc \in {"idle", "done"}
  /\ hs'[h] # hs[h]
  /\ hs'[h].req # NoRec
  /\ hs'[h].req.Method \in {"GET", "HEAD"}
  /\ hs'[h].key \in ReqKeys
  /\ shouldUseCache(hs'[h].req) \/ hs'[h].req.Method = "HEAD"

\* C13: a cacheable GET or any HEAD that finds a fresh entry is answered at
\* once from the cache: no origin call, status 200, the entry's body for GET
\* and none for HEAD, X-Cache HIT, Age the whole seconds since storedAt and
\* never negative, cacheHits incremented by one and nothing else.
C13_FreshStep(h) ==
  LET g == CacheGet(lru, cacheKey(hs'[h].key))
      e == heap[g.ptr]
      age == IF clock - e.StoredAt < 0 THEN 0 ELSE (clock - e.StoredAt) \div Second
  IN  (TakesUpLookup(h) /\ g.ok /\ Fresh(e, clock)) =>
        /\ hs'[h].pc = "done"
        /\ hs'[h].calls = 0
        /\ hs'[h].sets = 0
        /\ hs'[h].resp.status = 200
        /\ hs'[h].resp.from = "cache"
        /\ hs'[h].resp.body = IF hs'[h].req.Method = "GET" THEN e.Body ELSE <<>>
        /\ XCache(hs'[h].resp) = <<"HIT">>
        /\ HGet(hs'[h].resp.header, "Age") = <<age>>
        /\ age >= 0
        /\ hs'[h].inc = [NoInc EXCEPT !.cacheHits = 1]
AnswersStale(h) ==
  /\ hs'[h] # hs[h]
  /\ hs'[h].pc = "done"
  /\ XCache(hs'[h].resp) = <<"STALE">>
Scheduled(r) == rv[r].pc = "idle" /\ rv'[r].pc = "fetch"
C14_StaleStep ==
  /\ \A h \in Handlers :
       AnswersStale(h) =>
         /\ hs[h].pc = "stale"
         /\ hs[h].req.Method = "GET"
         /\ hs[h].useCache
         /\ hs[h].now < heap[hs[h].entry].StoredAt + heap[hs[h].entry].TTL + heap[hs[h].entry].StaleTTL
         /\ hs'[h].calls = 0
         /\ hs'[h].inc = [NoInc EXCEPT !.cacheStales = 1]
         /\ Cardinality({ r \in Revals : Scheduled(r) }) = 1
         /\ \A r \in Revals :
              Scheduled(r) => (rv'[r].key = hs[h].key /\ rv'[r].entry = hs[h].entry)
  /\ \A r \in Revals : Scheduled(r) => \E h \in Handlers : AnswersStale(h)
C14_StaleState ==
  /\ \A h \in Handlers :
       (hs[h].pc = "done" /\ XCache(hs[h].resp) = <<"STALE">>) =>
         (hs[h].req.Method = "GET" /\ shouldUseCache(hs[h].req))
  /\ \A r \in Revals :
       rv[r].pc = "fetch" =>
         RevalCond(heap[rv[r].entry]) =
           [IfNoneMatch |-> heap[rv[r].entry].ETag,
            IfModifiedSince |-> heap[rv[r].entry].LastModified, Range |-> ""]
C15_RevalStep ==
  /\ \A r \in Revals :
       (rv[r].pc = "refresh" /\ rv'[r].pc = "admit") =>
         /\ rv[r].outcome = "NotModified"
         /\ heap'[rv[r].entry].StoredAt = clock
         /\ heap'[rv[r].entry].StoredAt >= heap[rv[r].entry].StoredAt
         /\ heap'[rv[r].entry] = [heap[rv[r].entry] EXCEPT !.StoredAt = clock]
  /\ \A r \in Revals :
       (rv[r].pc = "admit" /\ rv'[r].pc = "idle" /\ rv[r].outcome = "NotModified") =>
         /\ CacheGet(lru', cacheKey(rv[r].key)).ok
         /\ LruPeek(lru', cacheKey(rv[r].key)) = rv[r].entry
         /\ heap'[rv[r].entry].StoredAt = heap[rv[r].entry].StoredAt
         /\ rv'[r].sets = 1
  /\ \A h \in Handlers, r \in Revals :
       LET g == CacheGet(lru, cacheKey(rv[r].key))
       IN  (/\ TakesUpLookup(h) /\ shouldUseCache(hs'[h].req)
            /\ rv[r].pc = "idle" /\ rv[r].outcome = "NotModified"
            /\ hs'[h].key = rv[r].key
            /\ g.ok /\ clock < heap[g.ptr].StoredAt + heap[g.ptr].TTL) =>
             (hs'[h].pc = "done" /\ XCache(hs'[h].resp) = <<"HIT">> /\ hs'[h].calls = 0)
C16_AdmitStep(h) ==
  LET e == heap[hs[h].entry]
      cc == HGet(e.Header, "Cache-Control")
      kept == heap'[LruPeek(lru', cacheKey(hs[h].key))]
  IN  (/\ hs[h].pc = "admit" /\ hs'[h].pc = "done" /\ hs[h].outcome = "Success"
       /\ Len(cc) = 1 /\ cc[1].name = "max-age" /\ AtoiOk(cc[1]) /\ cc[1].arg > 0) =>
        /\ hs'[h].resp.status = 200
        /\ hs'[h].resp.body = e.Body
        /\ <<Len(e.Body)>> = HGet(e.Header, "Content-Length")
        /\ XCache(hs'[h].resp) = <<"MISS">>
        /\ HGet(hs'[h].resp.header, "Age") = <<0>>
        /\ CacheGet(lru', cacheKey(hs[h].key)).ok
        /\ kept.Body = e.Body
        /\ kept.TTL = cc[1].arg * Second
        /\ kept.StaleTTL = CacheStaleTTL
        /\ kept.StoredAt = hs[h].now
C16_MissAdmitsWithMaxAge == [][\A h \in Handlers : C16_AdmitStep(h)]_vars

\* C17: every body a successful GetObject hands to the handler or to a
\* revalidation is closed exactly once by the time the function has returned,
\* on every path, and not before; HeadObject hands over no body; the deadline
\* context of every origin call is cancelled, at once when the call fails.
C17_HandlerBodies(x) ==
  /\ x.bodies = IF x.outcome = "Success" /\ x.req.Method = "GET" THEN 1 ELSE 0
  /\ x.pc = "done" => (x.closes = x.bodies /\ x.cancels = x.calls)
  /\ x.pc \in {"admit", "refresh"} => (x.closes = 0 /\ x.cancels = x.calls - x.bodies)
C17_RevalBodies(x) ==
  /\ x.bodies = IF x.outcome = "Success" /\ x.calls = 1 THEN 1 ELSE 0
  /\ x.pc = "idle" => (x.closes = x.bodies /\ x.cancels = x.calls)
  /\ x.pc \in {"admit", "refresh"} => (x.closes = 0 /\ x.cancels = x.calls - x.bodies)
C17_BodiesClosedOnce ==
  /\ \A h \in Handlers : hs[h].pc # "idle" => C17_HandlerBodies(hs[h])
  /\ \A r \in Revals : rv[r].pc # "fetch" => C17_RevalBodies(rv[r])

C17_Witness ==
  /\ \E h \in Handlers : hs[h].pc = "done" /\ hs[h].readErr /\ hs[h].closes = 1
  /\ \E r \in Revals : rv[r].pc = "idle" /\ rv[r].outcome = "Success" /\ rv[r].sets = 0
                       /\ rv[r].closes = 1

\* C18: a Set(k, e) leaves k mapped to an entry with e's body, headers and
\* status, and with the configured default where e's ttl or staleTtl is 0;
\* as long as k is neither deleted, evicted nor Set again that entry stays as
\* it is; a Get(k) reports a hit exactly when k is held and returns the entry
\* k is mapped to.
C18_Step ==
  /\ (last' # last /\ last'.op = "Set") =>
       LET e == last'.entry
           got == CacheGet(lru', last'.key)
       IN  /\ got.ok
           /\ heap'[got.ptr].Body = e.Body
           /\ heap'[got.ptr].Header = e.Header
           /\ heap'[got.ptr].Status = e.Status
           /\ heap'[got.ptr].TTL = IF e.TTL = 0 THEN CacheTTL ELSE e.TTL
           /\ heap'[got.ptr].StaleTTL = IF e.StaleTTL = 0 THEN CacheStaleTTL ELSE e.StaleTTL
  /\ \A k \in Keys :
       (/\ CacheGet(lru, k).ok /\ CacheGet(lru', k).ok
        /\ ~(last' # last /\ last'.op = "Set" /\ last'.key = k)) =>
         \/ heap'[LruPeek(lru', k)] = heap[LruPeek(lru, k)]
         \/ lru' = lru /\ heap' = heap
  /\ (last' # last /\ last'.op = "Get") =>
       /\ last'.ok = CacheGet(lru, last'.key).ok
       /\ last'.ok => last'.entry = heap[LruPeek(lru, last'.key)]
C18_SetGetRoundTrip == [][C18_Step]_vars

C18_Witness ==
  /\ last.op = "Get" /\ last.ok
  /\ last.entry.Body = <<2>>
  /\ last.entry.TTL = CacheTTL /\ last.entry.StaleTTL = CacheStaleTTL
  /\ Len(lru) = Capacity /\ Len(recency) > Capacity

\* --------------------------------------------- ttlFromHeaders on its own
\* Response headers without Cache-Control, or with one of up to two
\* directives: no-store, a max-age whose argument is not a number, and
\* max-age=N for every N from just below to just above the range of int.
TtlDirectives ==
  {Directive("no-store"), MaxAgeBad} \cup { MaxAgeDir(n) : n \in (MinInt - 1)..(MaxInt + 1) }
TtlCacheControls ==
  {<<>>} \cup { <<d>> : d \in TtlDirectives }
         \cup { <<d1, d2>> : d1 \in TtlDirectives, d2 \in TtlDirectives }
TtlHeaders ==
  {NoHeader} \cup { HSet(NoHeader, "Cache-Control", cc) : cc \in TtlCacheControls \ {<<>>} }
TtlInputs == [h : TtlHeaders, fallback : {0, CacheTTL}]

InitTtl == InitServer /\ pin \in TtlInputs /\ pout = NoRec

EvalTtl ==
  /\ pout = NoRec
  /\ pout' = [ttl |-> ttlFromHeaders(pin.h, pin.fallback)]
  /\ UNCHANGED <<clock, lru, heap, origin, hs, rv, pg, purged, recency, last, pin>>

NextTtl == EvalTtl

SpecTtl == InitTtl /\ [][NextTtl]_vars

\* The positions of the max-age directives of a Cache-Control value.
MaxAgeAt(cc) == { i \in 1..Len(cc) : cc[i].name = "max-age" }

\* C19: when the first max-age=N directive of the response Cache-Control has
\* an N the parser accepts, ttlFromHeaders returns 0 for N <= 0 and the
\* positive duration of exactly N seconds for N > 0; with no max-age
\* directive it returns the fallback.
C19_TtlIsMaxAgeSeconds ==
  pout # NoRec =>
    LET cc == HGet(pin.h, "Cache-Control")
        at == MaxAgeAt(cc)
    IN  IF at = {} THEN pout.ttl = pin.fallback
        ELSE LET part == cc[CHOOSE i \in at : \A j \in at : i <= j]
             IN  AtoiOk(part) =>
                   IF part.arg <= 0 THEN pout.ttl = 0
                   ELSE pout.ttl = part.arg * Second /\ pout.ttl > 0

\* The same for the N whose duration in seconds time.Duration can hold.
C19_TtlOfRepresentable ==
  pout # NoRec =>
    LET cc == HGet(pin.h, "Cache-Control")
        at == MaxAgeAt(cc)
    IN  IF at = {} THEN pout.ttl = pin.fallback
        ELSE LET part == cc[CHOOSE i \in at : \A j \in at : i <= j]
             IN  (AtoiOk(part) /\ part.arg * Second <= MaxInt) =>
                   IF part.arg <= 0 THEN pout.ttl = 0
                   ELSE pout.ttl = part.arg * Second /\ pout.ttl > 0

\* ------------------------------------- header copies in the Go memory model
\* An http.Header is a map from names to slices, and a map and the backing
\* array of a slice are shared by everyone who holds them.  A memory is
\* [maps |-> .., slices |-> ..]: the maps by their identity, each a function
\* from the names present to the address of the value slice, and the backing
\* arrays by their address.
EmptyMem == [maps |-> <<>>, slices |-> <<>>]

\* make(http.Header) / http.Header{} / the ResponseWriter's own header map
makeHeader(M) == [mem |-> [M EXCEPT !.maps = Append(@, <<>>)], id |-> Len(M.maps) + 1]

\* A slice assigned as it is: the holder shares the backing array.
appendShared(M, a) == [mem |-> M, addr |-> a]

\* append([]string(nil), v...) and append([]byte(nil), body...): a new
\* backing array with the elements of the one at address a.
appendNil(M, a) ==
  [mem |-> [M EXCEPT !.slices = Append(@, M.slices[a])], addr |-> Len(M.slices) + 1]

\* for k, v := range src { dst[k] = append([]string(nil), v...) }
RECURSIVE copyRange(_, _, _, _)
copyRange(M, dst, src, names) ==
  IF names = {} THEN M
  ELSE LET k == CHOOSE n \in names : TRUE
           c == appendNil(M, M.maps[src][k])
       IN  copyRange([c.mem EXCEPT !.maps[dst] = HSet(@, k, c.addr)], dst, src, names \ {k})

\* func copyHeaders(dst, src http.Header) on maps dst and src of the memory
copyHeadersMem(M, dst, src) == copyRange(M, dst, src, DOMAIN M.maps[src])

\* func cloneHeader(h http.Header) http.Header on map src of the memory
cloneHeaderMem(M, src) ==
  LET dup == makeHeader(M)
  IN  [mem |-> copyRange(dup.mem, dup.id, src, DOMAIN M.maps[src]), id |-> dup.id]

\* http.Header.Set: h[key] = []string{value}, a new slice in the map.
HeaderSet(M, id, name, v) ==
  LET s == [M EXCEPT !.slices = Append(@, v)]
  IN  [s EXCEPT !.maps[id] = HSet(@, name, Len(s.slices))]

\* http.Header.Del
HeaderDel(M, id, name) ==
  [M EXCEPT !.maps[id] = [n \in (DOMAIN @) \ {name} |-> @[n]]]

\* The header a map of the memory stands for.
Deref(M, id) == [n \in DOMAIN M.maps[id] |-> M.slices[M.maps[id][n]]]

\* toObject building obj.Headers: an empty map and one Set per header.
RECURSIVE setRange(_, _, _, _)
setRange(M, id, h, names) ==
  IF names = {} THEN M
  ELSE LET k == CHOOSE n \in names : TRUE
       IN  setRange(HeaderSet(M, id, k, h[k]), id, h, names \ {k})
StoreHeader(M, h) ==
  LET m == makeHeader(M)
  IN  [mem |-> setRange(m.mem, m.id, h, DOMAIN h), id |-> m.id]

\* A value no header and no body holds, of the kind the header holds.
Modified(name) ==
  CASE name = "Cache-Control" -> Directive("modified")
    [] name \in {"X-Cache", "Content-Range"} -> "modified"
    [] OTHER -> 0 - 1

CopyAnswers == [code : {""}, ver : 1..MaxVer, shape : ServeShapes]

\* objectHandler lines 217-240 on the memory: the object's headers and the
\* buffer io.ReadAll returned, and the entry built from them.
MemAdmit(ans) ==
  /\ pout = NoRec
  /\ LET obj == toObject(ans, 200)
         rd == ReadAllLimit(obj.Body, MaxObjectSize + 1)
         o == StoreHeader(EmptyMem, obj.Headers)
         buf == [o.mem EXCEPT !.slices = Append(@, rd.data)]
         body == appendNil(buf, Len(buf.slices))
         hdr == cloneHeaderMem(body.mem, o.id)
     IN  pout' = [phase |-> "admitted", mem |-> hdr.mem, obj |-> o.id, buf |-> Len(buf.slices),
                  entry |-> [Body |-> body.addr, Header |-> hdr.id, Status |-> obj.StatusCode,
                             ETag |-> obj.ETag, LastModified |-> obj.LastModified],
                  e |-> HandlerEntry(obj, rd.data, clock), w |-> 0, resp |-> NoRec]
  /\ UNCHANGED <<clock, lru, heap, origin, hs, rv, pg, purged, recency, last, pin>>

\* writeCacheEntry on the memory: the entry's headers copied into the
\* ResponseWriter's map, then Age and X-Cache set on that map.
MemServe(method, now, state) ==
  /\ pout # NoRec /\ pout.phase = "admitted"
  /\ LET w == makeHeader(pout.mem)
         m1 == copyHeadersMem(w.mem, w.id, pout.entry.Header)
         m2 == HeaderSet(m1, w.id, "Age", <<Age(pout.e, now)>>)
         m3 == HeaderSet(m2, w.id, "X-Cache", <<state>>)
         r == Request(method, "/a", "", <<>>, <<>>, NoETag, NoIMS)
     IN  pout' = [pout EXCEPT !.phase = "served", !.mem = m3, !.w = w.id,
                              !.resp = writeCacheEntry(r, pout.e, now, state)]
  /\ UNCHANGED <<clock, lru, heap, origin, hs, rv, pg, purged, recency, last, pin>>

\* A later writer to the response's headers or to the object's: a Set or a
\* Del on the map, or an element of a value slice overwritten in place.
MemMutate(who, name, kind) ==
  /\ pout # NoRec /\ pout.phase = "served"
  /\ name \in DOMAIN pout.mem.maps[pout[who]]
  /\ LET id == pout[who]
     IN  pout' = [pout EXCEPT !.phase = "mutated",
                   !.mem = CASE kind = "Set" -> HeaderSet(@, id, name, <<Modified(name)>>)
                             [] kind = "Del" -> HeaderDel(@, id, name)
                             [] OTHER -> [@ EXCEPT !.slices[@.maps[id][name]][1] = Modified(name)]]
  /\ UNCHANGED <<clock, lru, heap, origin, hs, rv, pg, purged, recency, last, pin>>

\* A later writer to the buffer the body was read into.
MemScribble ==
  /\ pout # NoRec /\ pout.phase = "served"
  /\ pout' = [pout EXCEPT !.phase = "mutated", !.mem.slices[pout.buf][1] = Modified("body")]
  /\ UNCHANGED <<clock, lru, heap, origin, hs, rv, pg, purged, recency, last, pin>>

HeaderNames == {"Cache-Control", "Last-Modified", "ETag", "Content-Range", "Content-Length",
                "Age", "X-Cache"}

NextCopy ==
  \/ \E ans \in CopyAnswers : MemAdmit(ans)
  \/ \E method \in {"GET", "HEAD"}, now \in {0, Second},
        state \in {"HIT", "STALE", "REVALIDATED", "MISS"} : MemServe(method, now, state)
  \/ \E who \in {"w", "obj"}, name \in HeaderNames, kind \in {"Set", "Del", "Write"} :
        MemMutate(who, name, kind)
  \/ MemScribble

SpecCopy == Init /\ [][NextCopy]_vars

\* C20: the entry admitted from an origin object holds the object's body,
\* headers, status, etag and lastModified, shares no storage with the object,
\* and keeps them through serving as HIT, STALE, REVALIDATED or MISS and
\* through a later write to the response's headers, to the object's headers
\* or to the read buffer; Age and X-Cache, set on the response, are never
\* among the entry's headers.
C20_EntryUntouchedByCopies ==
  pout # NoRec =>
    LET header == Deref(pout.mem, pout.entry.Header)
    IN  /\ header = pout.e.Header
        /\ pout.mem.slices[pout.entry.Body] = pout.e.Body
        /\ pout.entry.Status = pout.e.Status
        /\ pout.entry.ETag = pout.e.ETag
        /\ pout.entry.LastModified = pout.e.LastModified
        /\ "Age" \notin DOMAIN header /\ "X-Cache" \notin DOMAIN header
        /\ pout.phase = "served" =>
             /\ Deref(pout.mem, pout.w) = pout.resp.header
             /\ {"Age", "X-Cache"} \subseteq DOMAIN pout.resp.header

C20_Witness ==
  /\ pout # NoRec /\ pout.phase = "mutated"
  /\ pout.w # 0
  /\ "Cache-Control" \in DOMAIN pout.e.Header
  /\ Deref(pout.mem, pout.w)["Cache-Control"] = <<Modified("Cache-Control")>>
  /\ "Cache-Control" \in DOMAIN pout.mem.maps[pout.w]
  /\ pout.mem.slices[pout.mem.maps[pout.w]["Cache-Control"]] # pout.e.Header["Cache-Control"]

\* Among the server's own steps none writes to the body, the headers, the
\* status, the etag or the lastModified of an entry: an entry is replaced,
\* and only its StoredAt, TTL and StaleTTL are written in place.
C20_ServerStep ==
  \A p \in Ptrs :
    (heap[p] # Nil /\ heap'[p] # Nil) =>
      /\ heap'[p].Body = heap[p].Body
      /\ heap'[p].Header = heap[p].Header
      /\ heap'[p].Status = heap[p].Status
      /\ heap'[p].ETag = heap[p].ETag
      /\ heap'[p].LastModified = heap[p].LastModified
C20_ServerKeepsEntries ==
  /\ [](\A p \in Ptrs : heap[p] # Nil =>
          ("Age" \notin DOMAIN heap[p].Header /\ "X-Cache" \notin DOMAIN heap[p].Header))
  /\ [][C20_ServerStep]_vars

\* ------------------------------------------- two requests at the same time
\* Two handler goroutines serve plain GET and HEAD requests for one key, and
\* time.Now() is read at whole seconds up to RaceTime, so that two requests
\* holding the same hint entry can differ by a second in their instant now.
RaceHandlers == 1..(NumHandlers + 1)
RaceTime == 2 * Second
RaceRequests ==
  { Request(m, p, "", <<>>, <<>>, NoETag, NoIMS) : m \in {"GET", "HEAD"}, p \in ObjectPaths }

InitRace ==
  /\ clock = 0 /\ lru = <<>> /\ heap = [p \in Ptrs |-> Nil]
  /\ origin = [k \in ReqKeys |-> 1]
  /\ hs = [h \in RaceHandlers |-> IdleHandler]
  /\ rv = [r \in Revals |-> IdleReval]
  /\ pg = IdlePurge /\ purged = {} /\ recency = <<>> /\ last = NoOp
  /\ pin = NoRec /\ pout = NoRec

TickSecond ==
  /\ clock + Second <= RaceTime
  /\ clock' = clock + Second
  /\ UNCHANGED <<lru, heap, origin, hs, rv, pg, purged, recency, last, pin, pout>>

NextRace ==
  \/ \E h \in RaceHandlers, r \in RaceRequests : HStart(h, r)
  \/ \E h \in RaceHandlers : HStaleCheck(h)
  \/ \E h \in RaceHandlers : \E ans \in HandlerAnswers(h, PlainShapes) : HFetch(h, ans)
  \/ \E h \in RaceHandlers : HRefresh(h)
  \/ \E h \in RaceHandlers : HAdmit(h)
  \/ \E r \in Revals : \E ans \in RevalAnswers(r, PlainShapes) : RFetch(r, ans)
  \/ \E r \in Revals : RRefresh(r)
  \/ \E r \in Revals : RAdmit(r)
  \/ TickSecond

SpecRace == InitRace /\ [][NextRace]_vars

\* C21: a handler whose fetch returns NotModified while it holds a hint entry
\* writes its instant now to the hint's storedAt, then re-admits the hint under
\* the key and answers with the hint's status, headers and body (none for
\* HEAD), X-Cache REVALIDATED and Age 0, and increments cacheHits; without a
\* hint entry it answers 304 with an empty body and leaves the cache alone.
C21_Step(h) ==
  LET x == hs[h]
      y == hs'[h]
      e == heap[x.entry]
  IN  /\ (x.pc = "fetch" /\ y # x /\ y.outcome = "NotModified" /\ x.entry # NilPtr) =>
           (y.pc = "refresh" /\ y.entry = x.entry /\ lru' = lru)
      /\ (x.pc = "refresh" /\ y # x) =>
           (y.pc = "admit" /\ heap'[x.entry].StoredAt = x.now)
      /\ (x.pc = "admit" /\ y # x /\ x.outcome = "NotModified") =>
           /\ y.pc = "done"
           /\ LruPeek(lru', cacheKey(x.key)) = x.entry
           /\ y.sets = 1 /\ y.calls = 1
           /\ y.resp.status = e.Status
           /\ y.resp.body = IF x.req.Method = "HEAD" THEN <<>> ELSE e.Body
           /\ \A n \in DOMAIN e.Header : HGet(y.resp.header, n) = e.Header[n]
           /\ DOMAIN y.resp.header = DOMAIN e.Header \cup {"Age", "X-Cache"}
           /\ XCache(y.resp) = <<"REVALIDATED">>
           /\ HGet(y.resp.header, "Age") = <<0>>
           /\ y.inc = [NoInc EXCEPT !.cacheHits = 1]
      /\ (x.pc = "fetch" /\ y # x /\ y.outcome = "NotModified" /\ x.entry = NilPtr) =>
           /\ y.pc = "done"
           /\ y.resp.status = 304 /\ y.resp.body = <<>>
           /\ y.sets = 0 /\ y.inc = NoInc
           /\ lru' = lru /\ \A p \in Ptrs : heap[p] # Nil /\ heap'[p] # Nil => heap'[p] = heap[p]
C21_NotModifiedIsRevalidated == [][\A h \in DOMAIN hs : C21_Step(h)]_vars

\* The conditions under which a successful answer is to be admitted, for
\* handler h fetching with answer ans: taken from the request, the outgoing
\* conditional and the answer itself.
AdmissionDue(h, ans) ==
  LET x == hs[h]
      sh == ans.shape
  IN  /\ shouldUseCache(x.req)
      /\ x.req.Method = "GET"
      /\ x.cond.Range = ""
      /\ sh.ContentRange = ""
      /\ 0 < sh.ContentLength /\ sh.ContentLength <= MaxObjectSize
      /\ ~ \E i \in 1..Len(sh.CacheControl) : sh.CacheControl[i].name = "no-store"
      /\ ~sh.ReadErr /\ sh.BodyLen <= MaxObjectSize

\* What the claim asks of the step in which handler h receives the
\* successful answer ans.
AdmissionStep(h, ans) ==
  LET y == hs'[h]
  IN  IF AdmissionDue(h, ans)
      THEN /\ y.pc = "admit"
           /\ heap[y.entry] = Nil
           /\ heap'[y.entry].Body = [i \in 1..ans.shape.BodyLen |-> ans.ver]
           /\ heap'[y.entry].ETag = ETagOf(ans.ver)
      ELSE /\ y.pc = "done"
           /\ XCache(y.resp) = <<"MISS">>
           /\ y.resp.from = "origin"
           /\ y.sets = 0
           /\ lru' = lru
           /\ \A p \in Ptrs : heap'[p] # Nil => heap'[p] = heap[p]

\* The Set that completes an admission.
AdmissionSet(h) ==
  (hs[h].pc = "admit" /\ hs'[h] # hs[h] /\ hs[h].outcome = "Success") =>
    /\ LruPeek(lru', cacheKey(hs[h].key)) = hs[h].entry
    /\ hs'[h].sets = 1
    /\ XCache(hs'[h].resp) = <<"MISS">>

\* C22: on a Success outcome the handler admits a new entry exactly when
\* useCache holds, the method is GET, the outgoing Range is empty, the origin
\* status is 200, 0 < contentLength <= MaxObjectSize, the answer has no
\* no-store and the body is read within MaxObjectSize bytes; every other
\* successful answer is passed through with X-Cache MISS and without a
\* cache write.
C22_AdmitsExactlyWhenDue ==
  [][\A h \in DOMAIN hs :
       /\ \A ans \in HandlerAnswers(h, AdmitShapes) :
            (ans.code = "" /\ HFetch(h, ans)) => AdmissionStep(h, ans)
       /\ AdmissionSet(h)]_vars

\* The same with the answers left out whose body cannot be read to its end.
C22_ExceptReadError ==
  [][\A h \in DOMAIN hs :
       /\ \A ans \in HandlerAnswers(h, AdmitShapes) :
            (ans.code = "" /\ ~ans.shape.ReadErr /\ HFetch(h, ans)) => AdmissionStep(h, ans)
       /\ AdmissionSet(h)]_vars

\* The answers on which a revalidation is to write the cache: NotModified, or
\* a success with 0 < contentLength <= MaxObjectSize whose body is read
\* within the budget.
RevalWriteDue(ans) ==
  \/ ans.code = "NotModified"
  \/ /\ ans.code = ""
     /\ 0 < ans.shape.ContentLength /\ ans.shape.ContentLength <= MaxObjectSize
     /\ ~ans.shape.ReadErr /\ ans.shape.BodyLen <= MaxObjectSize

C23_RevalStep(r) ==
  LET x == rv[r]
      y == rv'[r]
  IN  /\ (x.pc # "idle" /\ y # x) => hs' = hs
      /\ \A ans \in RevalAnswers(r, AdmitShapes) :
           RFetch(r, ans) =>
             /\ y.calls = 1
             /\ CacheContents(lru', heap') = CacheContents(lru, heap)
             /\ IF RevalWriteDue(ans)
                THEN y.pc = IF ans.code = "NotModified" THEN "refresh" ELSE "admit"
                ELSE y.pc = "idle" /\ y.sets = 0 /\ y.entry = NilPtr
      /\ (x.pc = "refresh" /\ y # x) =>
           /\ y.pc = "admit" /\ y.calls = 1 /\ lru' = lru
           /\ \A p \in Ptrs : p # x.entry => heap'[p] = heap[p]
      /\ (x.pc = "admit" /\ y # x) =>
           /\ y.pc = "idle" /\ y.calls = 1 /\ y.sets = 1
           /\ LruPeek(lru', cacheKey(x.key)) = x.entry
      /\ (x.pc = "idle" /\ y # x) => (y.pc = "fetch" /\ y.calls = 0 /\ y.sets = 0)

C23_RevalState ==
  \A r \in DOMAIN rv :
    /\ rv[r].calls <= 1 /\ rv[r].sets <= rv[r].calls
    /\ rv[r].sets = 1 => rv[r].outcome \in {"NotModified", "Success"}

\* C23: a background revalidation writes the cache only on NotModified (the
\* entry re-freshened) or on a success with 0 < contentLength <= MaxObjectSize
\* whose body is read within the budget (the entry replaced); on NotFound,
\* Precondition, a transport error or timeout, an oversize or unreadable body
\* it ends with the cache as it was; it calls the origin at most once and
\* never touches a handler's response.
C23_RevalWritesOnlyWhenDue ==
  []C23_RevalState /\ [][\A r \in DOMAIN rv : C23_RevalStep(r)]_vars

C23_Witness ==
  /\ \E r \in DOMAIN rv :
       /\ rv[r].pc = "idle" /\ rv[r].calls = 1 /\ rv[r].sets = 0
       /\ rv[r].outcome = "Transport"
  /\ Len(lru) = 1
  /\ \E h \in DOMAIN hs : hs[h].pc = "done" /\ XCache(hs[h].resp) = <<"STALE">>

\* --------------------------------------- the outgoing conditional on its own
\* Client.GetObject, lines 79-89, and Client.HeadObject, lines 109-116: what
\* of the conditional reaches S3.  HeadObjectInput is given no Range.
GetObjectInput(cond) ==
  [IfNoneMatch |-> cond.IfNoneMatch, IfModifiedSince |-> cond.IfModifiedSince, Range |-> cond.Range]
HeadObjectInput(cond) ==
  [IfNoneMatch |-> cond.IfNoneMatch, IfModifiedSince |-> cond.IfModifiedSince, Range |-> ""]

\* func (s *Server) fetchFromOrigin: HeadObject for HEAD, GetObject otherwise.
OutgoingInput(method, cond) ==
  IF method = "HEAD" THEN HeadObjectInput(cond) ELSE GetObjectInput(cond)

\* Requests with If-None-Match absent or naming a version, If-Modified-Since
\* absent, malformed or naming an instant, with and without Range; as hint no
\* entry, or an entry with or without etag and lastModified.
CondRequests ==
  { Request(m, <<"/", "a">>, rg, <<>>, <<>>, inm, ims) :
      m \in {"GET", "HEAD"}, rg \in {"", "bytes=0-0"}, inm \in NoETag..MaxVer,
      ims \in {NoIMS, [set |-> TRUE, ok |-> FALSE, t |-> NoTime]}
                \cup { [set |-> TRUE, ok |-> TRUE, t |-> t] : t \in 1..MaxVer } }
CondHints ==
  {Nil} \cup { NewEntry(<<1>>, <<>>, 200, 0, CacheTTL, CacheStaleTTL, etag, lm) :
                 etag \in NoETag..MaxVer, lm \in NoTime..MaxVer }
CondInputs == [r : CondRequests, e : CondHints]

InitCond == InitServer /\ pin \in CondInputs /\ pout = NoRec

EvalCond ==
  /\ pout = NoRec
  /\ pout' = OutgoingInput(pin.r.Method, ComposeCond(pin.r, pin.e))
  /\ UNCHANGED <<clock, lru, heap, origin, hs, rv, pg, purged, recency, last, pin>>

NextCond == EvalCond

SpecCond == InitCond /\ [][NextCond]_vars

\* The parts of the claim that do not depend on how a malformed
\* If-Modified-Since is treated.
CondForwarded ==
  LET r == pin.r
      e == pin.e
  IN  /\ r.IfNoneMatch # NoETag => pout.IfNoneMatch = r.IfNoneMatch
      /\ (r.IfModifiedSince.set /\ r.IfModifiedSince.ok) =>
           pout.IfModifiedSince = r.IfModifiedSince.t
      /\ r.IfNoneMatch = NoETag =>
           pout.IfNoneMatch = IF e # Nil THEN e.ETag ELSE NoETag
      /\ ~r.IfModifiedSince.set =>
           pout.IfModifiedSince = IF e # Nil THEN e.LastModified ELSE NoTime
      /\ pout.Range = IF r.Method = "GET" THEN r.Range ELSE ""

\* C24: the conditional sent to the origin carries the client's
\* If-None-Match and well-formed If-Modified-Since unchanged, the hint's etag
\* and lastModified only in place of a header the client did not supply, no
\* If-Modified-Since when the client's is malformed, and the client's Range
\* for GET and none for HEAD.
C24_ConditionalComposed ==
  pout # NoRec =>
    /\ CondForwarded
    /\ (pin.r.IfModifiedSince.set /\ ~pin.r.IfModifiedSince.ok) => pout.IfModifiedSince = NoTime

\* The same, with the hint's lastModified standing in for a malformed
\* If-Modified-Since as it does for an absent one.
C24_MalformedAsAbsent ==
  pout # NoRec =>
    /\ CondForwarded
    /\ (pin.r.IfModifiedSince.set /\ ~pin.r.IfModifiedSince.ok) =>
         pout.IfModifiedSince = IF pin.e # Nil THEN pin.e.LastModified ELSE NoTime

\* The first max-age directive of a Cache-Control value asks for no
\* freshness: its argument is a number and not positive.
MaxAgeNotPositive(cc) ==
  /\ MaxAgeAt(cc) # {}
  /\ LET part == cc[CHOOSE i \in MaxAgeAt(cc) : \A j \in MaxAgeAt(cc) : i <= j]
     IN  AtoiOk(part) /\ part.arg <= 0

C25_Step ==
  /\ \A h \in DOMAIN hs :
       /\ \A ans \in HandlerAnswers(h, AdmitShapes) :
            (/\ ans.code = "" /\ AdmissionDue(h, ans)
             /\ MaxAgeNotPositive(ans.shape.CacheControl) /\ HFetch(h, ans)) => hs'[h].pc = "admit"
       /\ (/\ hs[h].pc = "admit" /\ hs'[h] # hs[h] /\ hs[h].outcome = "Success"
           /\ MaxAgeNotPositive(HGet(heap[hs[h].entry].Header, "Cache-Control"))) =>
            /\ LruPeek(lru', cacheKey(hs[h].key)) = hs[h].entry
            /\ heap'[hs[h].entry].TTL = CacheTTL
            /\ Fresh(heap'[hs[h].entry], hs[h].now)
  /\ \A r \in DOMAIN rv :
       /\ \A ans \in RevalAnswers(r, AdmitShapes) :
            (/\ ans.code = "" /\ RevalWriteDue(ans)
             /\ MaxAgeNotPositive(ans.shape.CacheControl) /\ RFetch(r, ans)) => rv'[r].pc = "admit"
       /\ (/\ rv[r].pc = "admit" /\ rv'[r] # rv[r] /\ rv[r].outcome = "Success"
           /\ MaxAgeNotPositive(HGet(heap[rv[r].entry].Header, "Cache-Control"))) =>
            /\ LruPeek(lru', cacheKey(rv[r].key)) = rv[r].entry
            /\ heap'[rv[r].entry].TTL = CacheTTL
            /\ Fresh(heap'[rv[r].entry], heap'[rv[r].entry].StoredAt)

\* C25: an origin answer that meets the admission conditions and carries
\* max-age=0 or a negative max-age is admitted all the same, by the handler
\* and by a revalidation, and the entry the cache then holds has the default
\* CacheTTL as its ttl, so that it is fresh from its storedAt for CacheTTL.
C25_ZeroMaxAgeGetsDefaultTtl ==
  /\ [](\A e \in Cached :
          MaxAgeNotPositive(HGet(e.Header, "Cache-Control")) =>
            (e.TTL = CacheTTL /\ \A t \in 0..MaxTime : Fresh(e, t) <=> t < e.StoredAt + CacheTTL))
  /\ [][C25_Step]_vars

C25_Witness ==
  /\ \E r \in DOMAIN rv : rv[r].pc = "idle" /\ rv[r].outcome = "Success" /\ rv[r].sets = 1
  /\ \E e \in Cached :
       /\ MaxAgeNotPositive(HGet(e.Header, "Cache-Control"))
       /\ e.StoredAt > 0
  /\ \E h \in DOMAIN hs :
       /\ hs[h].pc = "done" /\ XCache(hs[h].resp) = <<"HIT">>
       /\ MaxAgeNotPositive(HGet(hs[h].resp.header, "Cache-Control"))

\* ------------------------------------------- clients with their own validators
\* GETs that are plain or carry the client's own If-None-Match (any version
\* of the object) or If-Modified-Since, and a plain HEAD, while the object
\* is overwritten at the origin.
ValidRequests ==
  { Request("GET", p, "", <<>>, <<>>, inm, NoIMS) : p \in ObjectPaths, inm \in NoETag..MaxVer }
    \cup { Request("GET", p, "", <<>>, <<>>, NoETag, [set |-> TRUE, ok |-> TRUE, t |-> MaxVer]) :
             p \in ObjectPaths }
    \cup { Request("HEAD", p, "", <<>>, <<>>, NoETag, NoIMS) : p \in ObjectPaths }

NextValid ==
  \/ \E h \in Handlers, r \in ValidRequests : HStart(h, r)
  \/ \E h \in Handlers : HStaleCheck(h)
  \/ \E h \in Handlers : \E ans \in HandlerAnswers(h, PlainShapes) : HFetch(h, ans)
  \/ \E h \in Handlers : HRefresh(h)
  \/ \E h \in Handlers : HAdmit(h)
  \/ \E r \in Revals : \E ans \in RevalAnswers(r, PlainShapes) : RFetch(r, ans)
  \/ \E r \in Revals : RRefresh(r)
  \/ \E r \in Revals : RAdmit(r)
  \/ \E k \in ReqKeys : OriginPut(k)
  \/ Tick

SpecValid == Init /\ [][NextValid]_vars

\* C26: when a handler takes a NotModified as the confirmation of its hint
\* entry (it goes on to answer REVALIDATED with the hint's body), the
\* conditional it had sent carried the hint's etag and the object the origin
\* holds has that etag.
C26_Step(h) ==
  (hs[h].pc = "fetch" /\ hs'[h].pc = "refresh") =>
    LET e == heap[hs[h].entry]
    IN  /\ hs[h].cond.IfNoneMatch = e.ETag
        /\ ETagOf(origin[hs[h].key]) = e.ETag
C26_RevalidatedByHintValidators == [][\A h \in DOMAIN hs : C26_Step(h)]_vars

\* The same for the requests that bring no If-None-Match of their own.
C26_WithoutClientETag ==
  [][\A h \in DOMAIN hs :
       (hs[h].pc = "fetch" /\ hs[h].req.IfNoneMatch = NoETag) => C26_Step(h)]_vars

\* The key's entry in the cache does not go back to an older version of the
\* object (versions are numbered in the order of their upload and the etag of
\* an entry names its version).
VersionsAdvance ==
  \A k \in ReqKeys :
    (LruContains(lru, k) /\ LruContains(lru', k)) =>
      heap'[LruPeek(lru', k)].ETag >= heap[LruPeek(lru, k)].ETag

\* The storedAt of the key's entry in the cache does not go back.
StoredAtAdvances ==
  \A k \in ReqKeys :
    (LruContains(lru, k) /\ LruContains(lru', k)) =>
      heap'[LruPeek(lru', k)].StoredAt >= heap[LruPeek(lru, k)].StoredAt

\* C27: with handlers and revalidations running at the same time for one
\* key, no step replaces the key's cached entry by one of an older version of
\* the object, and none moves the cached entry's storedAt backwards.
C27_NoStepBackwards == [][VersionsAdvance /\ StoredAtAdvances]_vars

C27_VersionsAdvance == [][VersionsAdvance]_vars
C27_StoredAtAdvances == [][StoredAtAdvances]_vars

\* The end of an entry's stale window, storedAt + ttl + staleTtl.
WindowEnd(e) == e.StoredAt + e.TTL + e.StaleTTL

\* Handler h writes, in this step, a response that carries the body of an
\* entry: e is that entry as the handler reads it and now the instant the
\* request started.
C28_Step(h) ==
  LET x == hs[h]
      y == hs'[h]
  IN  (y # x /\ y.pc = "done" /\ y.resp.from = "cache") =>
        CASE x.pc \in {"idle", "done"} ->
               LET e == heap[LruPeek(lru, cacheKey(y.key))]
               IN  clock < e.StoredAt + e.TTL /\ y.calls = 0
          [] x.pc = "stale" ->
               LET e == heap[x.entry]
               IN  /\ x.now < WindowEnd(e)
                   /\ x.req.Method = "GET" /\ shouldUseCache(x.req)
                   /\ y.calls = 0
          [] x.pc = "admit" ->
               LET e == heap'[x.entry]
               IN  /\ y.calls = 1
                   /\ \/ x.outcome = "NotModified"
                      \/ x.outcome = "Success" /\ x.now < e.StoredAt + e.TTL
          [] OTHER -> FALSE

\* A lookup removes nothing from the cache, however old the entry it finds.
C28_LookupKeeps(h) ==
  (hs'[h] # hs[h] /\ hs[h].pc \in {"idle", "done", "stale"}) =>
    { lru'[i].key : i \in 1..Len(lru') } = { lru[i].key : i \in 1..Len(lru) }

\* C28: a response with the body of a cached entry is sent only when the
\* entry is fresh at the request's instant, or is inside its stale window
\* and the request is a cacheable GET, or the origin answered NotModified to
\* this request (or the entry was admitted by it); an entry past storedAt +
\* ttl + staleTtl is not served without an origin call, and a lookup leaves
\* it in the cache.
C28_ServedOnlyWhenValid ==
  [][\A h \in DOMAIN hs : C28_Step(h) /\ C28_LookupKeeps(h)]_vars

C28_Witness ==
  \E h \in DOMAIN hs :
    /\ hs[h].pc = "done" /\ hs[h].resp.from = "cache"
    /\ XCache(hs[h].resp) = <<"REVALIDATED">>
    /\ hs[h].req.Method = "GET" /\ hs[h].useCache
    /\ hs[h].calls = 1
    /\ \E e \in Cached : e.StoredAt >= CacheTTL + CacheStaleTTL

\* The body the origin sends with answer ans, from its first byte.
OriginBody(ans) == [i \in 1..ans.shape.BodyLen |-> ans.ver]

\* The GET of handler h is answered X-Cache MISS in this step, straight from
\* the answer ans or from the entry buffered from it.
C29_Step(h, ans) ==
  LET x == hs[h]
      y == hs'[h]
  IN  /\ (/\ HFetch(h, ans) /\ ans.code = "" /\ ~ans.shape.ReadErr
          /\ x.req.Method = "GET") =>
           \/ y.pc = "done" /\ XCache(y.resp) = <<"MISS">> /\ y.resp.body = OriginBody(ans)
           \/ y.pc = "admit" /\ heap'[y.entry].Body = OriginBody(ans)
      /\ (/\ x.pc = "admit" /\ y # x /\ x.outcome = "Success") =>
           (XCache(y.resp) = <<"MISS">> /\ y.resp.body = heap[x.entry].Body)

\* C29: a GET answered X-Cache MISS, without a failure of the transport,
\* delivers to the client the whole body the origin sent, from its first
\* byte, also when the body turned out longer than MaxObjectSize although
\* the declared Content-Length was within the limit.
C29_MissDeliversWholeBody ==
  [][\A h \in DOMAIN hs : \A ans \in HandlerAnswers(h, AdmitShapes) : C29_Step(h, ans)]_vars

\* The same for the answers whose body is not longer than MaxObjectSize
\* when the handler sets out to buffer it.
C29_UnlessBufferOverflows ==
  [][\A h \in DOMAIN hs : \A ans \in HandlerAnswers(h, AdmitShapes) :
       (/\ ans.code = "" /\ shouldStore(hs[h], toObject(ans, 200))
        /\ ans.shape.BodyLen > MaxObjectSize)
         \/ C29_Step(h, ans)]_vars

\* ------------------------------------------------------------- termination
\* The server of SpecServe under a scheduler that lets every goroutine that
\* can take a step take it, and an origin that answers every call or lets it
\* run into its deadline (GetObject and HeadObject run under withTimeout, a
\* revalidation under its own deadline on context.Background()).  The go
\* statement never waits, so a handler about to start a revalidation gets to
\* do so whenever a goroutine is to be had again and again.  Clients, the
\* clock and uploads to the bucket are under no obligation.
Progress ==
  /\ \A h \in Handlers :
       /\ SF_vars(HStaleCheck(h))
       /\ WF_vars(\E ans \in HandlerAnswers(h, ServeShapes) : HFetch(h, ans))
       /\ WF_vars(HRefresh(h))
       /\ WF_vars(HAdmit(h))
  /\ \A r \in Revals :
       /\ WF_vars(\E ans \in RevalAnswers(r, ServeShapes) : RFetch(r, ans))
       /\ WF_vars(RRefresh(r))
       /\ WF_vars(RAdmit(r))

SpecLive == Init /\ [][NextServe]_vars /\ Progress

\* What a request and a revalidation have done so far: no status written
\* while the handler is at work and one when it is done, at most one origin
\* call and one Cache.Set each.
C30_Resources ==
  /\ \A h \in Handlers :
       /\ hs[h].calls <= 1 /\ hs[h].sets <= 1
       /\ hs[h].pc \in {"stale", "fetch", "refresh", "admit"} => hs[h].resp = NoRec
       /\ hs[h].pc = "done" => (hs[h].resp # NoRec /\ hs[h].resp.status \in 200..599)
  /\ \A r \in Revals : rv[r].calls <= 1 /\ rv[r].sets <= 1

\* C30: under fair scheduling and an origin that answers or times out, every
\* object request ends with one response status written, after at most one
\* origin call and one Cache.Set, and every revalidation started ends after
\* at most one origin call and one Cache.Set, whatever becomes of the request
\* that started it.
C30_EveryTaskTerminates ==
  /\ []C30_Resources
  /\ \A h \in Handlers : (hs[h].pc \in {"stale", "fetch", "refresh", "admit"}) ~> (hs[h].pc = "done")
  /\ \A r \in Revals : (rv[r].pc # "idle") ~> (rv[r].pc = "idle")

C30_Witness ==
  /\ \E h \in Handlers :
       /\ hs[h].pc = "done" /\ hs[h].calls = 1 /\ hs[h].sets = 1
       /\ XCache(hs[h].resp) = <<"MISS">>
  /\ \E r \in Revals :
       /\ rv[r].pc = "idle" /\ rv[r].calls = 1 /\ rv[r].sets = 1
       /\ rv[r].outcome = "NotModified"

====
